---- MODULE Spec2Model ----
(***************************************************************************)
(* Model of the ModeUp AI trend detection and alerting engine:             *)
(*   scheduler_service.py  start_scheduler / collect_and_predict           *)
(*   ml_model.py           run_predictions_for_all_categories              *)
(*   database.py           save_prediction, alerts ledger, cooldown checks *)
(*   email_service.py      filter_predictions_for_user, send_alerts_to_user*)
(*   ml_model.py           normalize_topic, extract_features, the scorer,  *)
(*                         passes_prediction_policy, predict_trends        *)
(* Time is counted in minutes.  Python floats (engagement ratios, trend    *)
(* scores, confidences) are fixed-point numbers in thousandths.            *)
(***************************************************************************)
EXTENDS Integers, Sequences, FiniteSets, TLC

VARIABLES
    now,          \* the clock, in minutes
    sched,        \* the BackgroundScheduler of start_scheduler and its job
    cyc,          \* the executions of collect_and_predict, one per thread
    predictions,  \* the rows of the predictions table
    lastSave,     \* the last sequential call of save_prediction and its result
    alerts,       \* the rows of the alerts table (the cooldown ledger)
    lastCall,     \* the last direct call of send_alerts_to_user and its result
    delivered,    \* the batches these calls delivered, in order
    topicCall,    \* the last call of normalize_topic, its result and the
                  \* result of normalizing that result
    policyCall,   \* the last call of passes_prediction_policy and its result
    data_points,  \* the rows of the data_points table
    run,          \* the last run of predict_trends and the alerting after it
    featCall,     \* the last call of extract_features, scored and judged
    collectCall,  \* the last run of collect_global_discovery_and_save
    demoCall      \* the last call of send_demo_email_now and its result

vars == <<now, sched, cyc, predictions, lastSave, alerts, lastCall, delivered,
          topicCall, policyCall, data_points, run, featCall, collectCall,
          demoCall>>

\* the direct calls of extract_features, the collector and the demo email
callvars == <<featCall, collectCall, demoCall>>

\* the variables of the prediction pipeline
mlvars == <<topicCall, policyCall, data_points, run, callvars>>

----------------------------------------------------------------------------
(* Bounds of the model *)

\* last clock value of the scheduler specification (minutes)
MaxTimeSched == 60
\* last clock value of the prediction store specification (minutes)
MaxTimeStore == 122
\* largest number of rows of the predictions table in the store specification
MaxRows == 4
\* last clock value of the alerting specification (minutes)
MaxTimeAlert == 1441
\* largest number of delivered batches in the alerting specification
MaxBatches == 2
\* largest length of the strings normalize_topic is tried on exhaustively
MaxTopicLen == 4
\* largest total_mentions and platform_count passes_prediction_policy is
\* tried on
MaxPolicyMentions == 4
MaxPolicyPlatforms == 3
\* largest number of rows of the data_points table drawn from the pool
MaxMentions == 3
\* largest number of save_prediction calls that raise in one predict_trends
MaxSaveFailures == 1
\* largest number of data points of one topic extract_features is tried on
MaxFeatureMentions == 12
\* largest number of candidates of one run of the collector
MaxCandidates == 2
\* largest number of send_alerts_to_user batches delivered after the demo
MaxDemoFollowUps == 1
\* last clock value of the demo email specification (minutes)
MaxTimeDemo == 361
\* last clock value of the pipeline specification (minutes)
MaxTimePredict == 61

----------------------------------------------------------------------------
(* Configuration, src/config.py *)

DATA_COLLECTION_INTERVAL_MINUTES == 30

\* the 1 hour window of save_prediction's SELECT, in minutes
PredictionDedupMinutes == 1 * 60

\* two of the keys of config.CATEGORIES, in the order of the dict
Categories == <<"stocks_finance", "tech_ai">>

\* the fixed-point unit: 1.0 is written Milli
Milli == 1000

ALERT_MIN_TREND_SCORE == 65
ALERT_MIN_CONFIDENCE == 60
ALERT_TOPIC_COOLDOWN_HOURS == 24
ALERT_CATEGORY_COOLDOWN_HOURS == 6
ALERT_MAX_ITEMS_PER_EMAIL == 5

TREND_SCORE_THRESHOLD == 45
LOOKBACK_HOURS == 24
MIN_PLATFORMS_FOR_PREDICTION == 2
MIN_MENTIONS_FOR_TOPIC == 2
\* 75.0
SINGLE_PLATFORM_MIN_SCORE == 75
TOP_N_PREDICTIONS_TO_SAVE == 10

CategorySet == {Categories[i] : i \in 1..Len(Categories)}

Topics == {"tesla", "gpt"}

None == "None"

----------------------------------------------------------------------------
(* database.py: predictions table *)

\* mutant: the SELECT looks back 30 minutes instead of 1 hour
RecentPredictionExistsHalfHour(rows, topic, category, t) ==
    \E i \in 1..Len(rows) :
        /\ rows[i].topic = topic
        /\ rows[i].category = category
        /\ rows[i].predicted_at > t - PredictionDedupMinutes \div 2

\* the SELECT of save_prediction: a row of the same (topic, category) whose
\* predicted_at is later than one hour before the current time
RecentPredictionExists(rows, topic, category, t) ==
    \E i \in 1..Len(rows) :
        /\ rows[i].topic = topic
        /\ rows[i].category = category
        /\ rows[i].predicted_at > t - PredictionDedupMinutes

\* the INSERT of save_prediction: predicted_at defaults to CURRENT_TIMESTAMP,
\* alerted defaults to 0, the id is the next rowid
InsertPrediction(rows, topic, category, trend_score, confidence, t) ==
    Append(rows, [id |-> Len(rows) + 1, topic |-> topic,
                  category |-> category, trend_score |-> trend_score,
                  confidence |-> confidence, predicted_at |-> t,
                  alerted |-> 0])

\* save_prediction run without interruption: <<rows after, returned value>>;
\* the returned None is written 0 (row ids start at 1)
SavePredictionResult(rows, topic, category, trend_score, confidence, t) ==
    IF RecentPredictionExists(rows, topic, category, t)
    THEN <<rows, 0>>
    ELSE <<InsertPrediction(rows, topic, category, trend_score, confidence, t),
           Len(rows) + 1>>

----------------------------------------------------------------------------
(* database.py: alerts ledger and cooldown helpers *)

\* mutant: the cutoff comparison made strict
WasUserAlertedForCategoryStrict(ledger, email, category, hours, t) ==
    \E i \in 1..Len(ledger) :
        /\ ledger[i].email = email
        /\ ledger[i].category = category
        /\ ledger[i].alerted_at > t - hours * 60

\* SELECT 1 FROM alerts WHERE email = ? AND category = ? AND alerted_at >= ?
\* with cutoff = utcnow() - hours
WasUserAlertedForCategory(ledger, email, category, hours, t) ==
    \E i \in 1..Len(ledger) :
        /\ ledger[i].email = email
        /\ ledger[i].category = category
        /\ ledger[i].alerted_at >= t - hours * 60

\* mutant: the topic query made with the category cooldown's window
WasUserAlertedForTopicShortWindow(ledger, email, topic, hours, t) ==
    \E i \in 1..Len(ledger) :
        /\ ledger[i].email = email
        /\ ledger[i].topic = topic
        /\ ledger[i].alerted_at >= t - ALERT_CATEGORY_COOLDOWN_HOURS * 60

\* SELECT 1 FROM alerts WHERE email = ? AND topic = ? AND alerted_at >= ?
WasUserAlertedForTopic(ledger, email, topic, hours, t) ==
    \E i \in 1..Len(ledger) :
        /\ ledger[i].email = email
        /\ ledger[i].topic = topic
        /\ ledger[i].alerted_at >= t - hours * 60

\* log_alert: one row appended, alerted_at = utcnow()
LogAlert(ledger, email, p, t) ==
    Append(ledger, [email |-> email, category |-> p.category,
                    topic |-> p.topic, trend_score |-> p.trend_score,
                    confidence |-> p.confidence, alerted_at |-> t])

----------------------------------------------------------------------------
(* email_service.py: filter_predictions_for_user *)

\* mutant: one threshold is enough
IsStrongEither(p) ==
    \/ p.trend_score >= ALERT_MIN_TREND_SCORE * Milli
    \/ p.confidence >= ALERT_MIN_CONFIDENCE * Milli

\* mutant: the score is compared with the prediction threshold
IsStrongGlobalThreshold(p) ==
    /\ p.trend_score >= TREND_SCORE_THRESHOLD * Milli
    /\ p.confidence >= ALERT_MIN_CONFIDENCE * Milli

\* the test of the list comprehension `strong`
IsStrong(p) ==
    /\ p.trend_score >= ALERT_MIN_TREND_SCORE * Milli
    /\ p.confidence >= ALERT_MIN_CONFIDENCE * Milli

Strong(preds) == SelectSeq(preds, IsStrong)

\* list.sort(key=lambda x: x.get("trend_score", 0), reverse=True): Python's
\* sort is stable, so an element comes after every element of higher score
\* and after the earlier elements of equal score
SortValue(s) ==
    LET rank(i) ==
            Cardinality({j \in 1..Len(s) :
                \/ s[j].trend_score > s[i].trend_score
                \/ (s[j].trend_score = s[i].trend_score /\ j < i)}) + 1
    IN  [k \in 1..Len(s) |-> s[CHOOSE i \in 1..Len(s) : rank(i) = k]]

\* the sort applied to the value of its argument
SortByScoreDesc(seq) == CHOOSE r \in {SortValue(s) : s \in {seq}} : TRUE

\* s[:n]
Take(seq, n) ==
    CHOOSE r \in {SubSeq(s, 1, IF Len(s) < n THEN Len(s) ELSE n) : s \in {seq}} :
        TRUE

\* the keys of by_cat in insertion order: each category at its first
\* occurrence in `strong`, predictions without a category skipped
CategoryOrder(s) ==
    LET first(i) == /\ s[i].category # ""
                    /\ \A j \in 1..(i - 1) : s[j].category # s[i].category
        idx == SelectSeq([i \in 1..Len(s) |-> i], first)
    IN  [k \in 1..Len(idx) |-> s[idx[k]].category]

\* the body of the loop over by_cat for one category: nothing when the
\* category is in cooldown, else the group sorted by score without the
\* predictions whose topic is in cooldown
CategorySurvivors(ledger, email, strong, cat, t) ==
    IF WasUserAlertedForCategory(ledger, email, cat,
                                 ALERT_CATEGORY_COOLDOWN_HOURS, t)
    THEN <<>>
    ELSE LET group == SelectSeq(strong, LAMBDA p : p.category = cat)
             keep(p) == /\ p.topic # ""
                        /\ ~WasUserAlertedForTopic(ledger, email, p.topic,
                                                   ALERT_TOPIC_COOLDOWN_HOURS, t)
         IN  SelectSeq(SortByScoreDesc(group), keep)

RECURSIVE SurvivorsOf(_, _, _, _, _)
\* the list `filtered` after the loop over the categories `cats`
SurvivorsOf(ledger, email, strong, cats, t) ==
    IF cats = <<>>
    THEN <<>>
    ELSE SurvivorsOf(ledger, email, strong, SubSeq(cats, 1, Len(cats) - 1), t)
         \o CategorySurvivors(ledger, email, strong, cats[Len(cats)], t)

\* the list `filtered` before the final sort
Filtered(ledger, email, preds, t) ==
    LET strong == Strong(preds)
    IN  SurvivorsOf(ledger, email, strong, CategoryOrder(strong), t)

\* mutant: the final sort left out
TopItemsUnsorted(filtered) == Take(filtered, ALERT_MAX_ITEMS_PER_EMAIL)

\* filtered.sort(...); return filtered[:ALERT_MAX_ITEMS_PER_EMAIL]
TopItems(filtered) ==
    Take(SortByScoreDesc(filtered), ALERT_MAX_ITEMS_PER_EMAIL)

\* filter_predictions_for_user(email, predictions) on the ledger as it is at
\* time t
FilterPredictionsForUser(ledger, email, preds, t) ==
    TopItems(Filtered(ledger, email, preds, t))

----------------------------------------------------------------------------
(* email_service.py: send_alerts_to_user *)

\* the rows of the subscribers table, in table order: email, categories,
\* active
SubscribersTable ==
    << [email |-> "ana@example.com",
        categories |-> {"stocks_finance", "tech_ai"}, active |-> 1],
       [email |-> "bo@example.com",
        categories |-> {"stocks_finance"}, active |-> 1],
       [email |-> "cy@example.com",
        categories |-> {"stocks_finance", "tech_ai"}, active |-> 0] >>

\* SELECT email, categories FROM subscribers WHERE active = 1: the emails
SubscriberRows ==
    LET rows == SelectSeq(SubscribersTable, LAMBDA r : r.active = 1)
    IN  [i \in 1..Len(rows) |-> rows[i].email]

Emails == {SubscriberRows[i] : i \in 1..Len(SubscriberRows)}

Pred(topic, category, score, conf) ==
    [topic |-> topic, category |-> category,
     trend_score |-> score * Milli, confidence |-> conf * Milli]

\* predictions a cycle can hand to a user, in the order of the lists
Universe ==
    << Pred("tesla",   "tech_ai",        70, 80),
       Pred("rates",   "stocks_finance", 90, 60),
       Pred("gpt",     "tech_ai",        65, 60),
       Pred("tesla",   "stocks_finance", 80, 70),
       Pred("quantum", "tech_ai",        95, 59),
       Pred("bonds",   "stocks_finance", 64, 90),
       Pred("nvidia",  "tech_ai",        85, 75),
       Pred("gold",    "stocks_finance", 75, 65),
       Pred("robots",  "tech_ai",        75, 90) >>

\* the whole list, its tech_ai part and its stocks_finance part
CandidateLists ==
    { Universe,
      SelectSeq(Universe, LAMBDA p : p.category = "tech_ai"),
      SelectSeq(Universe, LAMBDA p : p.category = "stocks_finance") }

\* the categories column of the subscribers table, by email
Subscribed ==
    [e \in {SubscribersTable[i].email : i \in 1..Len(SubscribersTable)} |->
        (CHOOSE r \in {SubscribersTable[i] : i \in 1..Len(SubscribersTable)} :
            r.email = e).categories]

\* a user's candidates are predictions of subscribed categories
SendInputs ==
    {<<e, l>> \in Emails \X CandidateLists :
        \A k \in 1..Len(l) : l[k].category \in Subscribed[e]}

\* mutant: the category is not looked up in the row's categories
GetSubscribersByCategoryAnyRow(category) == SubscriberRows

\* get_subscribers_by_category: the emails of the active rows whose
\* categories hold the category, in table order
GetSubscribersByCategory(category) ==
    SelectSeq(SubscriberRows, LAMBDA e : category \in Subscribed[e])

RECURSIVE LogAll(_, _, _, _)
\* the loop `for p in chosen: log_alert(...)`
LogAll(ledger, email, chosen, t) ==
    IF chosen = <<>>
    THEN ledger
    ELSE LogAlert(LogAll(ledger, email, SubSeq(chosen, 1, Len(chosen) - 1), t),
                  email, chosen[Len(chosen)], t)

\* one call send_alerts_to_user(email, candidates) and how it ended
SendCall(email, candidates, outcome) ==
    [email |-> email, candidates |-> candidates, outcome |-> outcome]

\* what one call of send_alerts_to_user(email, preds) can leave behind: the
\* cooldown queries of filter_predictions_for_user raise (the exception leaves
\* the function), nothing is selected, the send raises, or the send returns
\* and the first k log_alert calls return.  `batches` holds the email that
\* was sent, if one was; `calls` holds the call.
SendResults(ledger, email, preds, t) ==
    UNION {
        {[ledger |-> ledger, raised |-> TRUE, batches |-> <<>>,
          calls |-> <<SendCall(email, preds, "filter_raised")>>],
         [ledger |-> ledger, raised |-> FALSE, batches |-> <<>>,
          calls |-> <<SendCall(email, preds,
                               IF chosen = <<>> THEN "nothing_chosen"
                                                ELSE "send_raised")>>]}
        \cup
        {[ledger |-> LogAll(ledger, email, SubSeq(chosen, 1, k), t),
          raised |-> FALSE,
          batches |-> <<[email |-> email, items |-> chosen]>>,
          calls |-> <<SendCall(email, preds, "sent")>>] :
            k \in IF chosen = <<>> THEN {} ELSE 0..Len(chosen)} :
        chosen \in {FilterPredictionsForUser(ledger, email, preds, t)}}

\* send_alerts_for_predictions, first loop: the candidates of one email are
\* the predictions of the categories it is subscribed to, in the order of
\* the categories
RECURSIVE UserCandidates(_, _, _)
UserCandidates(predsByCat, email, n) ==
    IF n = 0
    THEN <<>>
    ELSE UserCandidates(predsByCat, email, n - 1)
         \o (IF \E subs \in {GetSubscribersByCategory(Categories[n])} :
                    \E i \in 1..Len(subs) : subs[i] = email
             THEN predsByCat[n] ELSE <<>>)

\* the keys of user_candidates in insertion order
RECURSIVE CandidateUsers(_, _)
CandidateUsers(predsByCat, n) ==
    IF n = 0
    THEN <<>>
    ELSE LET front == CandidateUsers(predsByCat, n - 1)
             subs == IF predsByCat[n] = <<>>
                     THEN <<>>
                     ELSE GetSubscribersByCategory(Categories[n])
         IN  front \o SelectSeq(subs, LAMBDA e :
                          \A i \in 1..Len(front) : front[i] # e)

\* `deduped`: the first prediction of each (category, topic)
Deduped(preds) ==
    LET first(i) == \A j \in 1..(i - 1) :
                        \/ preds[j].category # preds[i].category
                        \/ preds[j].topic # preds[i].topic
        idx == SelectSeq([i \in 1..Len(preds) |-> i], first)
    IN  [k \in 1..Len(idx) |-> preds[idx[k]]]

\* send_alerts_for_predictions, second loop over the users: an exception
\* that leaves send_alerts_to_user ends the loop
RECURSIVE AlertUsers(_, _, _, _)
AlertUsers(ledger, users, predsByCat, t) ==
    IF users = <<>>
    THEN {[ledger |-> ledger, raised |-> FALSE, batches |-> <<>>,
           calls |-> <<>>]}
    ELSE UNION {
           IF r.raised
           THEN {r}
           ELSE {[rest EXCEPT !.batches = r.batches \o rest.batches,
                              !.calls = r.calls \o rest.calls] :
                   rest \in AlertUsers(r.ledger, Tail(users), predsByCat, t)} :
           r \in SendResults(ledger, Head(users),
                     Deduped(UserCandidates(predsByCat, Head(users),
                                            Len(Categories))), t)}

\* mutant: the users are visited once per category they subscribe to
SendAlertsForPredictionsPerCategory(ledger, predsByCat, t) ==
    {[ledger |-> ledger, raised |-> TRUE, batches |-> <<>>, calls |-> <<>>]}
    \cup UNION {AlertUsers(ledger, users, predsByCat, t) :
                users \in {GetSubscribersByCategory(Categories[1])
                           \o GetSubscribersByCategory(Categories[2])}}

\* send_alerts_for_predictions(predictions_by_category): the ledgers it can
\* leave, and whether an exception left it (get_subscribers_by_category or a
\* cooldown query raised)
SendAlertsForPredictions(ledger, predsByCat, t) ==
    {[ledger |-> ledger, raised |-> TRUE, batches |-> <<>>, calls |-> <<>>]}
    \cup UNION {AlertUsers(ledger, users, predsByCat, t) :
                users \in {CandidateUsers(predsByCat, Len(Categories))}}

NoCall ==
    [email |-> None, preds |-> <<>>, at |-> 0, ledger |-> <<>>,
     filtered |-> <<>>, chosen |-> <<>>, sent |-> FALSE, ret |-> FALSE]

\* one call of send_alerts_to_user(email, predictions); lastCall keeps the
\* list `filtered` as it is before the final sort and the list returned by
\* filter_predictions_for_user.  sendOk: whether
\* resend.Emails.send returns; logOk: how many log_alert calls return before
\* one raises (all of them when logOk = Len(chosen)).  An exception of either
\* is caught by the except clause and the function returns False.
SendAlertsToUser(email, preds) ==
    /\ Len(delivered) < MaxBatches
    /\ \E filtered \in {Filtered(alerts, email, preds, now)} :
       \E chosen \in {TopItems(filtered)} :
       \E call \in {[email |-> email, preds |-> preds, at |-> now,
                     ledger |-> alerts, filtered |-> filtered,
                     chosen |-> chosen, sent |-> FALSE, ret |-> FALSE]} :
         IF chosen = <<>>
         THEN /\ lastCall' = call
              /\ UNCHANGED <<alerts, delivered>>
         ELSE \E sendOk \in BOOLEAN, logOk \in 0..Len(chosen) :
                IF ~sendOk
                THEN /\ lastCall' = call
                     /\ UNCHANGED <<alerts, delivered>>
                ELSE /\ alerts' = LogAll(alerts, email,
                                         SubSeq(chosen, 1, logOk), now)
                     /\ delivered' = Append(delivered,
                            [email |-> email, at |-> now,
                             items |-> {<<chosen[i].category, chosen[i].topic>> :
                                          i \in 1..Len(chosen)}])
                     /\ lastCall' = [call EXCEPT !.sent = TRUE,
                                                 !.ret = (logOk = Len(chosen))]
    /\ UNCHANGED <<now, sched, cyc, predictions, lastSave,
                 mlvars>>

AlertDeltas ==
    {ALERT_CATEGORY_COOLDOWN_HOURS * 60,
     (ALERT_TOPIC_COOLDOWN_HOURS - ALERT_CATEGORY_COOLDOWN_HOURS) * 60 + 1}

AdvanceAlert(d) ==
    /\ now + d <= MaxTimeAlert
    /\ now' = now + d
    /\ UNCHANGED <<sched, cyc, predictions, lastSave, alerts, lastCall, delivered,
                 mlvars>>

----------------------------------------------------------------------------
(* scheduler_service.py and ml_model.py: the cycle *)

Threads == {"main", "job"}

IdleCycle ==
    [pc |-> "idle", cat |-> 0, collectRaised |-> FALSE, invoked |-> {},
     raisedCats |-> {}, preds |-> [k \in 1..Len(Categories) |-> <<>>],
     toSave |-> <<>>, found |-> FALSE,
     alertCalled |-> FALSE, alertRaised |-> FALSE, result |-> "none"]

\* what predict_trends(category) can return in one run: no prediction, or
\* the prediction of the category's first topic
PredictChoices(category) ==
    {<<>>} \cup {<<Universe[k]>> : k \in {i \in 1..2 :
                                          Universe[i].category = category}}

\* try/except around collect_global_discovery_and_save: the exception is
\* printed and the cycle goes on to prediction
AfterCollect(raised) == "predict"

\* mutant: run_predictions_for_all_categories without its try/except
AfterPredictCategoryNoTry(raised) == IF raised THEN "abort" ELSE "next"

\* try/except inside the loop of run_predictions_for_all_categories: the
\* category gets an empty list and the loop goes on
AfterPredictCategory(raised) == "next"

\* try/except around send_alerts_for_predictions
AfterAlert(raised) == "complete"

\* an exception that leaves collect_and_predict ends the execution
Aborted(c) == [cyc[c] EXCEPT !.pc = "idle", !.result = "raised"]

\* the loop of run_predictions_for_all_categories moves to the next category,
\* or returns to collect_and_predict after the last one
NextCategory(r) ==
    IF r.cat < Len(Categories)
    THEN [r EXCEPT !.pc = "predict", !.cat = r.cat + 1, !.toSave = <<>>]
    ELSE [r EXCEPT !.pc = "alert", !.toSave = <<>>]

\* start_scheduler: add_job(collect_and_predict, "interval", minutes=...) and
\* scheduler.start(); the first run time is one interval after the start
StartScheduler ==
    /\ sched.state = "new"
    /\ sched' = [state |-> "started",
                 nextFire |-> now + DATA_COLLECTION_INTERVAL_MINUTES]
    /\ UNCHANGED <<now, cyc, predictions, lastSave, alerts, lastCall, delivered,
                 mlvars>>

\* start_scheduler line 51: the immediate call of collect_and_predict in the
\* calling thread, after scheduler.start()
ImmediateRun ==
    /\ sched.state = "started"
    /\ sched' = [sched EXCEPT !.state = "running"]
    /\ cyc' = [cyc EXCEPT !["main"] = [IdleCycle EXCEPT !.pc = "collect"]]
    /\ UNCHANGED <<now, predictions, lastSave, alerts, lastCall, delivered,
                 mlvars>>

\* the interval trigger of the BackgroundScheduler fires in the scheduler's
\* own thread; the job store allows one running instance of the job
\* (max_instances defaults to 1), so a tick that finds the job's previous
\* instance still running is skipped
Tick ==
    /\ sched.state \in {"started", "running"}
    /\ now >= sched.nextFire
    /\ sched' = [sched EXCEPT
                   !.nextFire = sched.nextFire + DATA_COLLECTION_INTERVAL_MINUTES]
    /\ cyc' = IF cyc["job"].pc = "idle"
              THEN [cyc EXCEPT !["job"] = [IdleCycle EXCEPT !.pc = "collect"]]
              ELSE cyc
    /\ UNCHANGED <<now, predictions, lastSave, alerts, lastCall, delivered,
                 mlvars>>

\* collect_and_predict lines 19-22
Collect(c) ==
    /\ cyc[c].pc = "collect"
    /\ \E raised \in BOOLEAN :
         cyc' = [cyc EXCEPT ![c] =
                   IF AfterCollect(raised) = "abort"
                   THEN Aborted(c)
                   ELSE [cyc[c] EXCEPT !.pc = "predict", !.cat = 1,
                                       !.collectRaised = raised]]
    /\ UNCHANGED <<now, sched, predictions, lastSave, alerts, lastCall, delivered,
                 mlvars>>

\* one iteration of run_predictions_for_all_categories up to the first
\* save_prediction: predict_trends either raises (get_data_points fails) or
\* scores the topics and has a list of predictions to save
PredictCategory(c) ==
    /\ cyc[c].pc = "predict"
    /\ \E raised \in BOOLEAN, choice \in PredictChoices(Categories[cyc[c].cat]) :
         LET r == [cyc[c] EXCEPT
                     !.invoked = @ \cup {Categories[cyc[c].cat]},
                     !.raisedCats = IF raised
                                    THEN @ \cup {Categories[cyc[c].cat]}
                                    ELSE @,
                     !.preds[cyc[c].cat] = IF raised THEN <<>> ELSE choice]
         IN  cyc' = [cyc EXCEPT ![c] =
                       IF raised
                       THEN IF AfterPredictCategory(raised) = "abort"
                            THEN Aborted(c)
                            ELSE NextCategory(r)
                       ELSE IF choice = <<>>
                            THEN NextCategory(r)
                            ELSE [r EXCEPT !.pc = "save_select",
                                           !.toSave = choice]]
    /\ UNCHANGED <<now, sched, predictions, lastSave, alerts, lastCall, delivered,
                 mlvars>>

\* the loop `for pred in predictions[:top_n]` of predict_trends goes to the
\* next prediction, or predict_trends returns and the next category follows
NextSave(r) ==
    IF Len(r.toSave) > 1
    THEN [r EXCEPT !.pc = "save_select", !.toSave = Tail(r.toSave),
                   !.found = FALSE]
    ELSE NextCategory([r EXCEPT !.found = FALSE])

\* save_prediction lines 137-147: the SELECT, on the call's own connection.
\* An exception of save_prediction is caught in predict_trends (lines
\* 278-286) and the loop goes on.
SaveSelect(c) ==
    /\ cyc[c].pc = "save_select"
    /\ \E raised \in BOOLEAN :
         cyc' = [cyc EXCEPT ![c] =
                   IF raised
                   THEN NextSave(cyc[c])
                   ELSE [cyc[c] EXCEPT
                           !.pc = "save_insert",
                           !.found = RecentPredictionExists(predictions,
                                         Head(cyc[c].toSave).topic,
                                         Head(cyc[c].toSave).category, now)]]
    /\ UNCHANGED <<now, sched, predictions, lastSave, alerts, lastCall, delivered,
                 mlvars>>

\* save_prediction lines 147-159: INSERT and commit when the SELECT found no
\* row (an INSERT that raises leaves no row)
SaveInsert(c) ==
    /\ cyc[c].pc = "save_insert"
    /\ \E raised \in BOOLEAN :
         predictions' =
             IF cyc[c].found \/ raised
             THEN predictions
             ELSE InsertPrediction(predictions, Head(cyc[c].toSave).topic,
                                   Head(cyc[c].toSave).category,
                                   Head(cyc[c].toSave).trend_score,
                                   Head(cyc[c].toSave).confidence, now)
    /\ cyc' = [cyc EXCEPT ![c] = NextSave(cyc[c])]
    /\ UNCHANGED <<now, sched, lastSave, alerts, lastCall, delivered,
                 mlvars>>

\* collect_and_predict lines 26-33: send_alerts_for_predictions on the
\* predictions of this execution, then the function returns
Alert(c) ==
    /\ cyc[c].pc = "alert"
    /\ \E r \in SendAlertsForPredictions(alerts, cyc[c].preds, now) :
         /\ alerts' = r.ledger
         /\ cyc' = [cyc EXCEPT ![c] =
                      IF AfterAlert(r.raised) = "abort"
                      THEN Aborted(c)
                      ELSE [cyc[c] EXCEPT !.pc = "idle", !.alertCalled = TRUE,
                                          !.alertRaised = r.raised,
                                          !.result = "returned"]]
    /\ UNCHANGED <<now, sched, predictions, lastSave, lastCall, delivered,
                 mlvars>>

\* time passes
AdvanceSched ==
    /\ now + DATA_COLLECTION_INTERVAL_MINUTES <= MaxTimeSched
    /\ now' = now + DATA_COLLECTION_INTERVAL_MINUTES
    /\ UNCHANGED <<sched, cyc, predictions, lastSave, alerts, lastCall, delivered,
                 mlvars>>

----------------------------------------------------------------------------
(* database.py: sequential calls of save_prediction *)

\* the trend_score and confidence the sequential calls are made with
StoreScore == 70 * Milli
StoreConfidence == 80 * Milli

\* one call of save_prediction(topic, category, trend_score, confidence),
\* start to end
SavePrediction(topic, category) ==
    /\ Len(predictions) < MaxRows
    /\ LET res == SavePredictionResult(predictions, topic, category,
                                       StoreScore, StoreConfidence, now)
       IN  /\ predictions' = res[1]
           /\ lastSave' = [topic |-> topic, category |-> category,
                           at |-> now, rows |-> Len(predictions),
                           ret |-> res[2]]
    /\ UNCHANGED <<now, sched, cyc, alerts, lastCall, delivered,
                 mlvars>>

StoreDeltas == {30, 31}

AdvanceStore(d) ==
    /\ now + d <= MaxTimeStore
    /\ now' = now + d
    /\ UNCHANGED <<sched, cyc, predictions, lastSave, alerts, lastCall, delivered,
                 mlvars>>

----------------------------------------------------------------------------
(* ml_model.py: normalize_topic.  A Python str is a TLA+ string *)

UpperCase == "ABCDEFGHIJKLMNOPQRSTUVWXYZ"
LowerCase == "abcdefghijklmnopqrstuvwxyz"
Digits == "0123456789"

\* the characters of a string, as a set
CharsOf(s) == {SubSeq(s, i, i) : i \in 1..Len(s)}

\* the characters \s matches
WhiteSpace == {" ", "\t", "\n"}

UpperChars == CharsOf(UpperCase)

\* the characters [a-z0-9] matches
WordChars == CharsOf(LowerCase) \cup CharsOf(Digits)

\* the words of the alternation in the second re.sub
StopWords ==
    {"today", "live", "2024", "2025", "2026", "news", "stock", "price",
     "official", "trailer"}

\* str.lower() on one character
LowerChar(c) ==
    IF c \in UpperChars
    THEN LET i == CHOOSE k \in 1..Len(UpperCase) : SubSeq(UpperCase, k, k) = c
         IN  SubSeq(LowerCase, i, i)
    ELSE c

RECURSIVE Lower(_)
\* s.lower()
Lower(s) ==
    IF s = "" THEN "" ELSE LowerChar(SubSeq(s, 1, 1)) \o Lower(Tail(s))

RECURSIVE StripPunctuation(_)
\* re.sub(r"[^a-z0-9\s]", " ", s)
StripPunctuation(s) ==
    IF s = ""
    THEN ""
    ELSE (IF SubSeq(s, 1, 1) \in WordChars \cup WhiteSpace
          THEN SubSeq(s, 1, 1)
          ELSE " ") \o StripPunctuation(Tail(s))

\* a word character of the regular expression engine, in a string that
\* StripPunctuation returned
IsWordChar(c) == c \in WordChars

\* the length of the run of word characters that starts at position i
WordEnd(s, i) ==
    CHOOSE j \in i..(Len(s) + 1) :
        /\ \A k \in i..(j - 1) : IsWordChar(SubSeq(s, k, k))
        /\ j = Len(s) + 1 \/ ~IsWordChar(SubSeq(s, j, j))

RECURSIVE RemoveStopWordsFrom(_, _)
\* re.sub(r"\b(today|live|...|trailer)\b", "", s) from position i on: \b
\* holds only at the two ends of a run of word characters, so a match is a
\* whole run that is one of the words
RemoveStopWordsFrom(s, i) ==
    IF i > Len(s)
    THEN ""
    ELSE IF ~IsWordChar(SubSeq(s, i, i))
         THEN SubSeq(s, i, i) \o RemoveStopWordsFrom(s, i + 1)
         ELSE LET j == WordEnd(s, i)
                  word == SubSeq(s, i, j - 1)
              IN  (IF word \in StopWords THEN "" ELSE word)
                  \o RemoveStopWordsFrom(s, j)

RemoveStopWords(s) == RemoveStopWordsFrom(s, 1)

RECURSIVE CollapseWhiteSpaceFrom(_, _)
\* re.sub(r"\s+", " ", s) from position i on
CollapseWhiteSpaceFrom(s, i) ==
    IF i > Len(s)
    THEN ""
    ELSE IF SubSeq(s, i, i) \in WhiteSpace
         THEN (IF i > 1 /\ SubSeq(s, i - 1, i - 1) \in WhiteSpace
               THEN "" ELSE " ") \o CollapseWhiteSpaceFrom(s, i + 1)
         ELSE SubSeq(s, i, i) \o CollapseWhiteSpaceFrom(s, i + 1)

CollapseWhiteSpace(s) == CollapseWhiteSpaceFrom(s, 1)

\* str.strip()
Strip(s) ==
    IF \A i \in 1..Len(s) : SubSeq(s, i, i) \in WhiteSpace
    THEN ""
    ELSE LET a == CHOOSE i \in 1..Len(s) :
                      /\ SubSeq(s, i, i) \notin WhiteSpace
                      /\ \A k \in 1..(i - 1) : SubSeq(s, k, k) \in WhiteSpace
             b == CHOOSE i \in 1..Len(s) :
                      /\ SubSeq(s, i, i) \notin WhiteSpace
                      /\ \A k \in (i + 1)..Len(s) : SubSeq(s, k, k) \in WhiteSpace
         IN  SubSeq(s, a, b)

\* the value bound to a name
Value(v) == CHOOSE x \in {v} : TRUE

\* mutant: the whitespace is collapsed before the stop words are removed
NormalizeTopicCollapseFirst(s) ==
    LET s1 == Value(Lower(IF s = None THEN "" ELSE s))
        s2 == Value(StripPunctuation(s1))
        s3 == Value(CollapseWhiteSpace(s2))
        s4 == Value(RemoveStopWords(s3))
    IN  Strip(s4)

\* normalize_topic(s): (s or "").lower(), the three re.sub, strip()
NormalizeTopic(s) ==
    LET s1 == Value(Lower(IF s = None THEN "" ELSE s))
        s2 == Value(StripPunctuation(s1))
        s3 == Value(RemoveStopWords(s2))
        s4 == Value(CollapseWhiteSpace(s3))
    IN  Strip(s4)

\* raw topic strings as the collectors store them
SampleTopics ==
    {"Tesla Stock", "tesla stock crash", "TESLA: stock!", "News Today",
     "Fed rate cut 2025"}

\* characters of the exhaustive inputs: the letters of a stop word, an upper
\* case letter, a punctuation mark and a blank
Alphabet == {"l", "i", "v", "e", "L", "!", " "}

RECURSIVE StringsOfLen(_)
StringsOfLen(n) ==
    IF n = 0
    THEN {""}
    ELSE {c \o s : c \in Alphabet, s \in StringsOfLen(n - 1)}

\* the arguments normalize_topic is called with: None, every string over the
\* alphabet up to the length bound, the sample topics
RawInputs ==
    {None} \cup SampleTopics \cup UNION {StringsOfLen(n) : n \in 0..MaxTopicLen}

NoTopicCall == [raw |-> None, once |-> "", twice |-> "", done |-> FALSE]

\* normalize_topic(raw), and normalize_topic of what it returned
NormalizeTopicCall ==
    /\ ~topicCall.done
    /\ \E once \in {NormalizeTopic(topicCall.raw)} :
         topicCall' = [topicCall EXCEPT !.once = once,
                                        !.twice = NormalizeTopic(once),
                                        !.done = TRUE]
    /\ UNCHANGED <<now, sched, cyc, predictions, lastSave, alerts, lastCall,
                   delivered, policyCall, data_points, run, callvars>>

----------------------------------------------------------------------------
(* ml_model.py: passes_prediction_policy *)

\* mutant: the platform rule is applied before the mention floor
PassesPredictionPolicyPlatformsFirst(f, score) ==
    IF f.platform_count >= MIN_PLATFORMS_FOR_PREDICTION
    THEN TRUE
    ELSE IF f.total_mentions < MIN_MENTIONS_FOR_TOPIC
         THEN FALSE
         ELSE /\ f.platform_count = 1
              /\ score >= SINGLE_PLATFORM_MIN_SCORE * Milli

\* passes_prediction_policy(f, score), the knobs read from config.py
PassesPredictionPolicy(f, score) ==
    IF f.total_mentions < MIN_MENTIONS_FOR_TOPIC
    THEN FALSE
    ELSE IF f.platform_count >= MIN_PLATFORMS_FOR_PREDICTION
         THEN TRUE
         ELSE /\ f.platform_count = 1
              /\ score >= SINGLE_PLATFORM_MIN_SCORE * Milli

\* the scores the policy is tried on: around the single platform floor and
\* the ends of the scale
PolicyScores ==
    {0, 60 * Milli, SINGLE_PLATFORM_MIN_SCORE * Milli - 1,
     SINGLE_PLATFORM_MIN_SCORE * Milli, SINGLE_PLATFORM_MIN_SCORE * Milli + 1,
     100 * Milli}

\* the arguments of a call: the two keys of f the function reads, and score
PolicyInputs ==
    {[f |-> [total_mentions |-> m, platform_count |-> k], score |-> sc,
      ret |-> FALSE, done |-> FALSE] :
        m \in 0..MaxPolicyMentions, k \in 0..MaxPolicyPlatforms,
        sc \in PolicyScores}

NoPolicyCall ==
    [f |-> [total_mentions |-> 0, platform_count |-> 0], score |-> 0,
     ret |-> FALSE, done |-> FALSE]

\* one call of passes_prediction_policy
PassesPredictionPolicyCall ==
    /\ ~policyCall.done
    /\ policyCall' =
          [policyCall EXCEPT
              !.ret = PassesPredictionPolicy(policyCall.f, policyCall.score),
              !.done = TRUE]
    /\ UNCHANGED <<now, sched, cyc, predictions, lastSave, alerts, lastCall,
                   delivered, topicCall, data_points, run, callvars>>

----------------------------------------------------------------------------
(* ml_model.py: extract_features and the scorer.  A data point is a row    *)
(* of get_data_points: platform, topic, engagement_score, timestamp; the   *)
(* engagement is a whole number, the timestamp is in minutes (UTC), iso    *)
(* tells whether datetime.fromisoformat parses the timestamp's text.       *)
(* Every division is a float division in Python and truncates here.        *)

Min(a, b) == IF a < b THEN a ELSE b
Max(a, b) == IF a > b THEN a ELSE b

RECURSIVE SumSeq(_)
SumSeq(q) == IF q = <<>> THEN 0 ELSE Head(q) + SumSeq(Tail(q))

MaxSeq(q) == CHOOSE v \in {q[i] : i \in 1..Len(q)} :
                 \A i \in 1..Len(q) : q[i] <= v

\* config.ENGAGEMENT_BASELINES.get(category, 150.0)
EngagementBaseline(category) ==
    CASE category = "stocks_finance" -> 250
      [] category = "tech_ai" -> 220
      [] OTHER -> 150

\* np.log1p(n) for n = 1, 2, ..., in thousandths
Log1pTable ==
    <<693, 1099, 1386, 1609, 1792, 1946, 2079, 2197, 2303, 2398, 2485, 2565,
      2639, 2708, 2773, 2833, 2890, 2944, 2996, 3045, 3091, 3135, 3178, 3219>>

Log1p(n) == IF n = 0 THEN 0 ELSE Log1pTable[Min(n, Len(Log1pTable))]

\* the value of extract_features when no data point matches
Absent == [absent |-> TRUE]

\* the number of data points of one platform
PlatformCount(rows, platform) ==
    Len(SelectSeq(rows, LAMBDA dp : dp.platform = platform))

\* the dict extract_features returns for the matching data points, with
\* datetime.now() = localNow
FeaturesOf(topic_data, category, localNow) ==
    LET n == Len(topic_data)
        baseline == Max(EngagementBaseline(category), 1)
        engagement_scores ==
            [i \in 1..n |-> (topic_data[i].engagement * Milli) \div baseline]
        recent_mentions ==
            Len(SelectSeq(topic_data,
                          LAMBDA dp : /\ dp.iso
                                      /\ dp.timestamp > localNow - 6 * 60))
        platform_count == Cardinality({topic_data[i].platform : i \in 1..n})
    IN  [absent |-> FALSE,
         platform_count |-> platform_count,
         avg_engagement |-> SumSeq(engagement_scores) \div n,
         max_engagement |-> MaxSeq(engagement_scores),
         total_mentions |-> n,
         velocity |-> (recent_mentions * Milli) \div Max(n, 1),
         twitter_weight |-> PlatformCount(topic_data, "twitter") * 2000,
         news_weight |-> PlatformCount(topic_data, "news") * 2500,
         google_trends_weight |->
             PlatformCount(topic_data, "google_trends") * 3000,
         google_search_weight |->
             PlatformCount(topic_data, "google_search") * 1500,
         youtube_weight |-> PlatformCount(topic_data, "youtube") * 2200,
         corroboration |-> platform_count,
         mention_strength |-> Log1p(n)]

\* mutant: the data points are matched on the raw topic string
ExtractFeaturesRawMatch(topic, rows, category, localNow) ==
    LET topic_data == Value(SelectSeq(rows, LAMBDA dp : dp.topic = topic))
    IN  IF topic_data = <<>>
        THEN Absent
        ELSE FeaturesOf(topic_data, category, localNow)

\* mutant: the data points are not filtered by topic
ExtractFeaturesEveryRow(topic, rows, category, localNow) ==
    IF rows = <<>> THEN Absent ELSE FeaturesOf(rows, category, localNow)

\* extract_features(topic, data_points, category)
ExtractFeatures(topic, rows, category, localNow) ==
    LET norm_topic == Value(NormalizeTopic(topic))
        topic_data ==
            Value(SelectSeq(rows,
                            LAMBDA dp : NormalizeTopic(dp.topic) = norm_topic))
    IN  IF topic_data = <<>>
        THEN Absent
        ELSE FeaturesOf(topic_data, category, localNow)

\* mutant: the engagement points are not capped
CalculateTrendScoreUncappedEngagement(f) ==
    IF f.absent
    THEN 0
    ELSE LET platform_score ==
                 Min((f.news_weight * 6) \div 20, 6 * Milli)
                 + Min((f.google_trends_weight * 4) \div 12, 4 * Milli)
                 + Min((f.youtube_weight * 3) \div 12, 3 * Milli)
                 + Min((f.twitter_weight * 2) \div 20, 2 * Milli)
             score ==
                 Min((8 + (f.platform_count - 1) * 10) * Milli, 30 * Milli)
                 + f.avg_engagement * 7
                 + f.max_engagement * 3
                 + f.velocity * 20
                 + Min(f.mention_strength * 4, 10 * Milli)
                 + platform_score
         IN  Min(score, 100 * Milli)

\* calculate_trend_score(f)
CalculateTrendScore(f) ==
    IF f.absent
    THEN 0
    ELSE LET platform_score ==
                 Min((f.news_weight * 6) \div 20, 6 * Milli)
                 + Min((f.google_trends_weight * 4) \div 12, 4 * Milli)
                 + Min((f.youtube_weight * 3) \div 12, 3 * Milli)
                 + Min((f.twitter_weight * 2) \div 20, 2 * Milli)
             score ==
                 Min((8 + (f.platform_count - 1) * 10) * Milli, 30 * Milli)
                 + Min(f.avg_engagement * 7, 12500)
                 + Min(f.max_engagement * 3, 12500)
                 + f.velocity * 20
                 + Min(f.mention_strength * 4, 10 * Milli)
                 + platform_score
         IN  Min(score, 100 * Milli)

\* the step function of calculate_confidence
MentionConfidence(m) ==
    CASE m <= 1 -> 5
      [] m = 2 -> 12
      [] m = 3 -> 18
      [] m = 4 -> 22
      [] OTHER -> 25

\* calculate_confidence(f)
CalculateConfidence(f) ==
    IF f.absent
    THEN 0
    ELSE LET plat == Min(20 + (f.platform_count - 1) * 20, 55) * Milli
             mention == MentionConfidence(f.total_mentions) * Milli
             vel == Min(f.velocity * 20, 20 * Milli)
         IN  Min(plat + mention + vel, 100 * Milli)

----------------------------------------------------------------------------
(* database.py: get_data_points; ml_model.py: predict_trends *)

\* ORDER BY timestamp DESC, rows of equal timestamp in table order
SortByTimestampDesc(q) ==
    LET rank(i) ==
            Cardinality({j \in 1..Len(q) :
                \/ q[j].timestamp > q[i].timestamp
                \/ (q[j].timestamp = q[i].timestamp /\ j < i)}) + 1
    IN  [k \in 1..Len(q) |-> q[CHOOSE i \in 1..Len(q) : rank(i) = k]]

\* get_data_points(category, hours) at time t
GetDataPoints(table, category, hours, t) ==
    LET rows == Value(SelectSeq(table, LAMBDA dp :
                          /\ dp.category = category
                          /\ dp.timestamp > t - hours * 60))
    IN  SortByTimestampDesc(rows)

\* the distinct non-empty raw topics of the data points, at their first
\* occurrence
RawTopics(rows) ==
    LET first(i) == /\ rows[i].topic # ""
                    /\ \A j \in 1..(i - 1) : rows[j].topic # rows[i].topic
        idx == SelectSeq([i \in 1..Len(rows) |-> i], first)
    IN  [k \in 1..Len(idx) |-> rows[idx[k]].topic]

Reverse(q) == [k \in 1..Len(q) |-> q[Len(q) + 1 - k]]

\* list(set(...)): the iteration order of a set of str is not fixed; the
\* order of first occurrence and its reverse are tried
TopicOrders(rows) ==
    LET ts == Value(RawTopics(rows))
    IN  {ts, Reverse(ts)}

\* mutant: TREND_SCORE_THRESHOLD is not applied
TopicEvaluationPolicyOnly(topic, rows, category, localNow) ==
    LET f == Value(ExtractFeatures(topic, rows, category, localNow))
        score == Value(CalculateTrendScore(f))
        passes == ~f.absent /\ PassesPredictionPolicy(f, score)
    IN  [topic |-> topic, f |-> f, score |-> score, passes |-> passes,
         predicted |-> passes]

\* one round of the loop `for topic in topics`: the features and the score
\* of the topic, what the policy said, whether a prediction was appended
TopicEvaluation(topic, rows, category, localNow) ==
    LET f == Value(ExtractFeatures(topic, rows, category, localNow))
        score == Value(CalculateTrendScore(f))
        passes == ~f.absent /\ PassesPredictionPolicy(f, score)
    IN  [topic |-> topic, f |-> f, score |-> score, passes |-> passes,
         predicted |-> passes /\ score >= TREND_SCORE_THRESHOLD * Milli]

\* the loop `for topic in topics`, round by round
EvaluateTopics(topics, rows, category, localNow) ==
    [k \in 1..Len(topics) |->
        TopicEvaluation(topics[k], rows, category, localNow)]

\* the dict appended to `predictions` in a round that predicted
PredictionOf(e, category) ==
    [topic |-> e.topic, trend_score |-> e.score,
     confidence |-> CalculateConfidence(e.f), category |-> category,
     features |-> e.f]

\* the list `predictions` after the loop
ScoreTopics(evals, category) ==
    LET hits == SelectSeq(evals, LAMBDA e : e.predicted)
    IN  [k \in 1..Len(hits) |-> PredictionOf(hits[k], category)]

RECURSIVE SaveAll(_, _, _, _, _)
\* the loop `for pred in predictions[:top_n]` up to call k: save_prediction
\* on each, the calls of `failing` raise and leave no row
SaveAll(rows, submitted, failing, k, t) ==
    IF k = 0
    THEN rows
    ELSE LET before == Value(SaveAll(rows, submitted, failing, k - 1, t))
         IN  IF k \in failing
             THEN before
             ELSE SavePredictionResult(before, submitted[k].topic,
                                       submitted[k].category,
                                       submitted[k].trend_score,
                                       submitted[k].confidence, t)[1]

\* the ways save_prediction calls can raise in one loop over n predictions
FailingCalls(n) ==
    {F \in SUBSET (1..n) : Cardinality(F) <= MaxSaveFailures}

\* mutant: the list is cut to top_n before it is sorted
SubmittedUnsorted(preds) == Take(preds, TOP_N_PREDICTIONS_TO_SAVE)

\* predictions.sort(...); predictions[:top_n]
Submitted(preds) == Take(SortByScoreDesc(preds), TOP_N_PREDICTIONS_TO_SAVE)

\* predict_trends from the loop over `topics` on, for one iteration order:
\* what it can return and leave in the predictions table
PredictTopics(rows, data, category, topics, t, localNow) ==
    LET evals == Value(EvaluateTopics(topics, data, category, localNow))
        preds == Value(ScoreTopics(evals, category))
        sorted == Value(SortByScoreDesc(preds))
        submitted == Value(Submitted(preds))
    IN  {[category |-> category, raised |-> FALSE, data |-> data,
          evals |-> evals, preds |-> sorted, submitted |-> submitted,
          failing |-> failing,
          rows |-> SaveAll(rows, submitted, failing, Len(submitted), t)] :
            failing \in FailingCalls(Len(submitted))}

\* predict_trends(category) that returned [] before the loop (no data
\* points) or raised in get_data_points: run_predictions_for_all_categories
\* then stores [] for the category
NoPredictions(rows, category, raised) ==
    [category |-> category, raised |-> raised, data |-> <<>>,
     evals |-> <<>>, preds |-> <<>>, submitted |-> <<>>, failing |-> {},
     rows |-> rows]

\* predict_trends(category) at time t
PredictTrendsResults(rows, table, category, t, localNow) ==
    LET data == Value(GetDataPoints(table, category, LOOKBACK_HOURS, t))
    IN  {NoPredictions(rows, category, TRUE)}
        \cup (IF data = <<>>
              THEN {NoPredictions(rows, category, FALSE)}
              ELSE UNION {PredictTopics(rows, data, category, topics, t,
                                        localNow) :
                            topics \in TopicOrders(data)})

----------------------------------------------------------------------------
(* ml_model.py: run_predictions_for_all_categories, followed by the        *)
(* alerting of collect_and_predict, on a table of data points              *)

RECURSIVE RunCategories(_, _, _, _, _)
\* the loop over config.CATEGORIES up to category k: the predictions table
\* and all_predictions it can leave
RunCategories(rows, table, k, t, localNow) ==
    IF k = 0
    THEN {[rows |-> rows, byCat |-> <<>>]}
    ELSE UNION {
           {[rows |-> r.rows, byCat |-> Append(prev.byCat, r)] :
              r \in PredictTrendsResults(prev.rows, table, Categories[k], t,
                                         localNow)} :
           prev \in RunCategories(rows, table, k - 1, t, localNow)}

\* a row of data_points; its timestamp is the CURRENT_TIMESTAMP of the
\* insert, which datetime.fromisoformat parses
DataPoint(platform, category, topic, engagement, timestamp) ==
    [platform |-> platform, category |-> category, topic |-> topic,
     engagement |-> engagement, timestamp |-> timestamp, iso |-> TRUE]

\* data points the collectors can have stored before the cycle: the two
\* mentions of the end-to-end scenario, the same topic in other spellings,
\* at other times and in another category, topics made of stop words, a
\* negative engagement (parse_trend_value keeps the sign of a rising value)
MentionPool ==
    << DataPoint("google_trends", "stocks_finance", "Tesla Stock", 300, -70),
       DataPoint("news", "stocks_finance", "tesla stock crash", 90, -10),
       DataPoint("news", "stocks_finance", "TESLA: stock!", 1200, -10),
       DataPoint("news", "stocks_finance", "News Today", 400, -10),
       DataPoint("google_trends", "stocks_finance", "Live news", 500, -10),
       DataPoint("google_trends", "stocks_finance", "Fed rate cut 2025",
                 -5000, -10),
       DataPoint("news", "stocks_finance", "Tesla Stock", 900, -7 * 60),
       DataPoint("twitter", "tech_ai", "Tesla Stock", 2000, -10),
       DataPoint("google_trends", "stocks_finance", "Tesla Stock", 300,
                 -25 * 60),
       DataPoint("news", "stocks_finance", "Tesla Stock", 90, -10) >>

\* the rows of the pool at the positions of I, in the order of the pool
PoolRows(I) ==
    LET idx == SelectSeq([i \in 1..Len(MentionPool) |-> i], LAMBDA i : i \in I)
    IN  [k \in 1..Len(idx) |-> MentionPool[idx[k]]]

BulkTopics ==
    <<"apple", "amazon", "google", "meta", "nvidia", "intel", "amd", "ibm",
      "oracle", "cisco", "adobe", "netflix">>

\* a table with one more topic than predict_trends saves, each mentioned on
\* two platforms, the engagement growing with the topic and high enough for
\* an alert
BulkTable ==
    [k \in 1..(2 * (TOP_N_PREDICTIONS_TO_SAVE + 1)) |->
        DataPoint(IF k % 2 = 1 THEN "google_trends" ELSE "news",
                  "stocks_finance", BulkTopics[(k + 1) \div 2],
                  700 + 25 * ((k + 1) \div 2), -10)]

\* a table with one topic of each category, each mentioned on two platforms
\* with an engagement high enough for an alert
TwoCategoryTable ==
    << DataPoint("google_trends", "stocks_finance", "Fed rate cut", 900, -10),
       DataPoint("news", "stocks_finance", "Fed rate cut", 1000, -10),
       DataPoint("news", "tech_ai", "GPT-5 launch", 900, -10),
       DataPoint("twitter", "tech_ai", "GPT-5 launch", 1000, -10) >>

\* the ledger after earlier cycles alerted the first subscriber for the
\* ten highest topics of the bulk table, 7 hours before time 0
PriorAlerts ==
    [k \in 1..TOP_N_PREDICTIONS_TO_SAVE |->
        [email |-> SubscriberRows[1], category |-> "stocks_finance",
         topic |-> BulkTopics[k + 1], trend_score |-> 70 * Milli,
         confidence |-> 72 * Milli, alerted_at |-> -7 * 60]]

\* the tables the cycle is run on
MentionTables ==
    {BulkTable, TwoCategoryTable}
    \cup {PoolRows(I) : I \in {J \in SUBSET (1..Len(MentionPool)) :
                                  Cardinality(J) <= MaxMentions}}

\* datetime.now() is the host's local time, the timestamps of the table are
\* UTC: the offsets of the hosts considered, in minutes
HostUtcOffsets == {0, 9 * 60}

NoRun ==
    [done |-> FALSE, at |-> 0, localNow |-> 0,
     rowsBefore |-> <<>>, byCat |-> <<>>, alertCalled |-> FALSE,
     alertRaised |-> FALSE, ledgerBefore |-> <<>>, batches |-> <<>>,
     calls |-> <<>>]

\* run_predictions_for_all_categories()
RunPredictions ==
    /\ ~run.done
    /\ \E off \in HostUtcOffsets :
       \E r \in RunCategories(predictions, data_points, Len(Categories), now,
                              now + off) :
         /\ predictions' = r.rows
         /\ run' = [done |-> TRUE, at |-> now,
                    localNow |-> now + off, rowsBefore |-> predictions,
                    byCat |-> r.byCat, alertCalled |-> FALSE,
                    alertRaised |-> FALSE, ledgerBefore |-> alerts,
                    batches |-> <<>>, calls |-> <<>>]
    /\ UNCHANGED <<now, sched, cyc, lastSave, alerts, lastCall, delivered,
                   topicCall, policyCall, data_points, callvars>>

\* send_alerts_for_predictions(predictions) of the same cycle
SendCycleAlerts ==
    /\ run.done
    /\ ~run.alertCalled
    /\ \E r \in SendAlertsForPredictions(alerts,
                   [k \in 1..Len(Categories) |-> run.byCat[k].preds], now) :
         /\ alerts' = r.ledger
         /\ run' = [run EXCEPT !.alertCalled = TRUE,
                               !.alertRaised = r.raised,
                               !.ledgerBefore = alerts,
                               !.batches = r.batches,
                               !.calls = r.calls]
    /\ UNCHANGED <<now, sched, cyc, predictions, lastSave, lastCall, delivered,
                   topicCall, policyCall, data_points, callvars>>

\* time passes before the cycle
AdvancePredict ==
    /\ ~run.done
    /\ now + PredictionDedupMinutes + 1 <= MaxTimePredict
    /\ now' = now + PredictionDedupMinutes + 1
    /\ UNCHANGED <<sched, cyc, predictions, lastSave, alerts, lastCall,
                   delivered, mlvars>>

----------------------------------------------------------------------------
(* ml_model.py: extract_features called on lists of data points, followed *)
(* by the scorer and the policy as in the loop of predict_trends           *)

\* the platforms of the odd and of the even mentions
FeaturePlatformPairs ==
    {<<"news", "news">>, <<"google_trends", "google_trends">>,
     <<"twitter", "twitter">>, <<"youtube", "youtube">>,
     <<"google_search", "google_search">>, <<"news", "twitter">>}

\* the engagement of the first mention and of the others
FeatureEngagements ==
    {<<-5000, -5000>>, <<0, 300>>, <<300, 100000>>, <<100000, 100000>>}

\* n mentions of one topic in two spellings, the first k of them 10 minutes
\* old and the others 7 hours old, the last one with a timestamp that
\* datetime.fromisoformat rejects when `bad`; then a mention of another topic
FeatureRows(n, pair, eng, k, bad) ==
    [i \in 1..n |->
        [DataPoint(IF i % 2 = 1 THEN pair[1] ELSE pair[2], "stocks_finance",
                   IF i % 2 = 1 THEN "Tesla" ELSE "tesla!",
                   IF i = 1 THEN eng[1] ELSE eng[2],
                   IF i <= k THEN -10 ELSE -7 * 60)
         EXCEPT !.iso = ~(bad /\ i = n)]]
    \o <<DataPoint("news", "stocks_finance", "Fed", 500, -10)>>

NoFeatureCall ==
    [topic |-> "Tesla", rows |-> <<>>, category |-> "stocks_finance",
     localNow |-> 0,
     eval |-> [topic |-> "", f |-> Absent, score |-> 0, passes |-> FALSE,
               predicted |-> FALSE],
     done |-> FALSE]

\* the calls tried: the lists of data points, and datetime.now() on each host
FeatureInputs ==
    UNION {
        {[NoFeatureCall EXCEPT !.rows = FeatureRows(n, pair, eng, k, bad),
                               !.localNow = off] :
            pair \in FeaturePlatformPairs, eng \in FeatureEngagements,
            k \in 0..n, bad \in BOOLEAN, off \in HostUtcOffsets} :
        n \in 0..MaxFeatureMentions}

\* extract_features(topic, data_points, category), calculate_trend_score
\* and passes_prediction_policy on its result; the call is made at UTC time
\* `now`
ExtractFeaturesCall ==
    /\ ~featCall.done
    /\ featCall' =
          [featCall EXCEPT
              !.eval = TopicEvaluation(featCall.topic, featCall.rows,
                                       featCall.category, featCall.localNow),
              !.done = TRUE]
    /\ UNCHANGED <<now, sched, cyc, predictions, lastSave, alerts, lastCall,
                   delivered, topicCall, policyCall, data_points, run,
                   collectCall, demoCall>>

----------------------------------------------------------------------------
(* data_collector.py: classify_topic_to_category and                       *)
(* collect_global_discovery_and_save                                       *)

\* some of the keywords of the two categories in config.CATEGORIES
CategoryKeywords(cat) ==
    CASE cat = "stocks_finance" ->
             <<"earnings", "ipo", "inflation", "bitcoin", "ai stocks">>
      [] cat = "tech_ai" ->
             <<"openai", "gpt", "ai agents", "nvidia gpu", "apple">>
      [] OTHER -> <<>>

\* kw in s, for two str
Contains(s, kw) ==
    \E i \in 1..(Len(s) - Len(kw) + 1) : SubSeq(s, i, i + Len(kw) - 1) = kw

\* the score of one category: each keyword found in the text adds
\* max(1, len(kw) // 5)
KeywordScore(topic_l, cat) ==
    LET kws == CategoryKeywords(cat)
        points == [k \in 1..Len(kws) |->
                     LET kw_l == Value(Lower(kws[k]))
                     IN  IF kw_l # "" /\ Contains(topic_l, kw_l)
                         THEN Max(1, Len(kw_l) \div 5)
                         ELSE 0]
    IN  SumSeq(points)

RECURSIVE BestCategory(_, _)
\* <<best_cat, best_score>> after the first n categories of the loop
BestCategory(topic_l, n) ==
    IF n = 0
    THEN <<"unknown", 0>>
    ELSE LET best == Value(BestCategory(topic_l, n - 1))
             score == Value(KeywordScore(topic_l, Categories[n]))
         IN  IF score > best[2] THEN <<Categories[n], score>> ELSE best

\* best_cat if best_score > 0 else "unknown"
KeywordFallback(topic, context) ==
    LET topic_l == Value(Lower(topic \o " " \o context))
        best == Value(BestCategory(topic_l, Len(Categories)))
    IN  IF best[2] > 0 THEN best[1] ELSE "unknown"

\* the texts Claude is taken to answer with
ClaudeTexts ==
    {"stocks_finance", " tech_ai\n", "unknown", "sports", "Tech_AI", ""}

\* what the call of client.messages.create can do: raise, or return a text
ClaudeReplies ==
    {[raised |-> TRUE, text |-> ""]}
    \cup {[raised |-> FALSE, text |-> t] : t \in ClaudeTexts}

\* mutant: Claude's answer is returned without the test against `allowed`
ClassifyUncachedUnchecked(topic, context, hasClaude, reply) ==
    IF ~hasClaude \/ reply.raised
    THEN KeywordFallback(topic, context)
    ELSE Strip(reply.text)

\* classify_topic_to_category after the cache lookup missed, lines 218-273:
\* the value stored in the cache and returned
ClassifyUncached(topic, context, hasClaude, reply) ==
    IF ~hasClaude \/ reply.raised
    THEN KeywordFallback(topic, context)
    ELSE LET ans == Value(Strip(reply.text))
         IN  IF ans \in CategorySet \cup {"unknown"}
             THEN ans
             ELSE KeywordFallback(topic, context)

\* s[:n]
Prefix(str, n) == SubSeq(str, 1, Min(Len(str), n))

\* classify_topic_to_category(topic, context): the value returned and the
\* cache after the call; the cache is a set of <<key, value>> pairs
ClassifyTopicToCategory(cache, topic0, context, hasClaude, reply) ==
    LET topic == Value(Strip(topic0))
        cache_key == Value(topic \o "||" \o Prefix(context, 80))
    IN  IF topic = ""
        THEN [out |-> "unknown", cache |-> cache]
        ELSE IF \E pr \in cache : pr[1] = cache_key
             THEN [out |-> (CHOOSE pr \in cache : pr[1] = cache_key)[2],
                   cache |-> cache]
             ELSE LET out == Value(ClassifyUncached(topic, context, hasClaude,
                                                    reply))
                  IN  [out |-> out, cache |-> cache \cup {<<cache_key, out>>}]

\* the replies that make a difference to a call: none is asked for without
\* Claude
RepliesFor(hasClaude) ==
    IF hasClaude THEN ClaudeReplies ELSE {[raised |-> TRUE, text |-> ""]}

Candidate(platform, topic, content, engagement) ==
    [platform |-> platform, topic |-> topic, content |-> content,
     engagement |-> engagement]

\* candidates the global collectors can return
CandidatePool ==
    << Candidate("google_trends", "Bitcoin ETF", "Bitcoin ETF", 300),
       Candidate("news", "OpenAI GPT-5", "OpenAI launches GPT-5", 90),
       Candidate("youtube", "Taylor Swift", "Taylor Swift tour", 1000),
       Candidate("news", "AI stocks earnings", "", 50),
       Candidate("google_search", " Apple event ", "", 10) >>

RECURSIVE CandidateListsOfLen(_)
CandidateListsOfLen(n) ==
    IF n = 0
    THEN {<<>>}
    ELSE {<<CandidatePool[i]>> \o l :
            i \in 1..Len(CandidatePool), l \in CandidateListsOfLen(n - 1)}

RECURSIVE CollectResults(_, _, _, _, _)
\* the loop `for item in candidates` of collect_global_discovery_and_save
\* at time t: the rows and the cache it can leave, the category of each
\* candidate it classified, the number of rows saved, and whether
\* save_data_point raised (the exception leaves the function)
CollectResults(rows, cache, candidates, hasClaude, t) ==
    IF candidates = <<>>
    THEN {[rows |-> rows, cache |-> cache, classified |-> <<>>, saved |-> 0,
           raised |-> FALSE]}
    ELSE UNION {
           LET item == Head(candidates)
               c == Value(ClassifyTopicToCategory(cache, item.topic,
                              item.content, hasClaude, reply))
           IN  IF c.out = "unknown"
               THEN {[rest EXCEPT !.classified = <<c.out>> \o rest.classified] :
                       rest \in CollectResults(rows, c.cache, Tail(candidates),
                                               hasClaude, t)}
               ELSE {[rows |-> rows, cache |-> c.cache,
                      classified |-> <<c.out>>, saved |-> 0, raised |-> TRUE]}
                    \cup
                    {[rest EXCEPT !.classified = <<c.out>> \o rest.classified,
                                  !.saved = rest.saved + 1] :
                       rest \in CollectResults(
                                  Append(rows, DataPoint(item.platform, c.out,
                                             item.topic, item.engagement, t)),
                                  c.cache, Tail(candidates), hasClaude, t)} :
           reply \in RepliesFor(hasClaude)}

NoCollectCall ==
    [candidates |-> <<>>, hasClaude |-> FALSE, cache |-> {},
     classified |-> <<>>, saved |-> 0, raised |-> FALSE, done |-> FALSE]

\* the runs tried: the candidates discovered, with and without
\* ANTHROPIC_API_KEY
CollectInputs ==
    {[NoCollectCall EXCEPT !.candidates = l, !.hasClaude = h] :
        l \in UNION {CandidateListsOfLen(n) : n \in 0..MaxCandidates},
        h \in BOOLEAN}

\* collect_global_discovery_and_save()
CollectGlobalDiscoveryAndSave ==
    /\ ~collectCall.done
    /\ \E r \in CollectResults(data_points, collectCall.cache,
                               collectCall.candidates, collectCall.hasClaude,
                               now) :
         /\ data_points' = r.rows
         /\ collectCall' = [collectCall EXCEPT !.cache = r.cache,
                                               !.classified = r.classified,
                                               !.saved = r.saved,
                                               !.raised = r.raised,
                                               !.done = TRUE]
    /\ UNCHANGED <<now, sched, cyc, predictions, lastSave, alerts, lastCall,
                   delivered, topicCall, policyCall, run, featCall, demoCall>>

----------------------------------------------------------------------------
(* database.py: get_recent_predictions; email_service.py:                  *)
(* send_demo_email_now                                                     *)

\* get_recent_predictions(hours, category) at time t, rows in table order;
\* category None stands for no category filter
GetRecentPredictions(rows, hours, category, t) ==
    SelectSeq(rows, LAMBDA r :
        /\ r.predicted_at > t - hours * 60
        /\ category = None \/ r.category = category)

\* the dict built from a row, lines 234-240
DemoPrediction(row) ==
    [topic |-> row.topic, category |-> row.category,
     trend_score |-> row.trend_score, confidence |-> row.confidence]

\* the (trend_score, confidence) key of a comes before that of b in the
\* descending sort
KeyAbove(a, b) ==
    \/ a.trend_score > b.trend_score
    \/ (a.trend_score = b.trend_score /\ a.confidence > b.confidence)

\* mutant: the list is sorted by trend_score alone
BestPredictionByScore(preds) ==
    preds[CHOOSE i \in 1..Len(preds) :
            /\ \A j \in 1..Len(preds) :
                  preds[j].trend_score <= preds[i].trend_score
            /\ \A j \in 1..(i - 1) :
                  preds[j].trend_score # preds[i].trend_score]

\* preds.sort(key=(trend_score, confidence), reverse=True); preds[0]: the
\* sort is stable, so the first of the predictions with the largest key
BestPrediction(preds) ==
    preds[CHOOSE i \in 1..Len(preds) :
            /\ \A j \in 1..Len(preds) : ~KeyAbove(preds[j], preds[i])
            /\ \A j \in 1..(i - 1) : KeyAbove(preds[i], preds[j])]

\* the predictions table before the demo: two tech_ai rows of equal
\* trend_score, a stocks_finance row, and a row older than the lookback;
\* none reaches both alert thresholds
DemoRows ==
    InsertPrediction(
      InsertPrediction(
        InsertPrediction(
          InsertPrediction(<<>>, "tesla", "tech_ai", 50 * Milli, 40 * Milli,
                           -10),
          "rates", "stocks_finance", 64 * Milli, 90 * Milli, -10),
        "gpt", "tech_ai", 50 * Milli, 55 * Milli, -20),
      "bonds", "stocks_finance", 99 * Milli, 99 * Milli, -25 * 60)

\* the tables tried: empty, the old row only, the tech_ai rows, all rows
DemoTables ==
    {<<>>,
     SelectSeq(DemoRows, LAMBDA r : r.topic = "bonds"),
     SelectSeq(DemoRows, LAMBDA r : r.category = "tech_ai"),
     DemoRows}

\* the ledgers tried: empty, and the first subscriber alerted for "gpt" ten
\* minutes before time 0
DemoLedgers ==
    {<<>>,
     <<[email |-> SubscriberRows[1], category |-> "tech_ai", topic |-> "gpt",
        trend_score |-> 70 * Milli, confidence |-> 80 * Milli,
        alerted_at |-> -10]>>}

\* the addresses the demo is requested for: the subscribers and a stranger
DemoEmails == Emails \cup {"dan@example.com"}

\* the `categories` argument: None or the selected keys
DemoCategories ==
    {<<>>, <<"tech_ai">>, <<"stocks_finance">>, <<"stocks_finance", "tech_ai">>}

NoDemoCall ==
    [email |-> None, categories |-> <<>>, at |-> 0, ledgerBefore |-> <<>>,
     ledgerAfter |-> <<>>, preds |-> <<>>, best |-> <<>>, sent |-> FALSE,
     ret |-> FALSE, done |-> FALSE]

\* send_demo_email_now(email, categories); sendOk: whether
\* resend.Emails.send returns in send_trend_alert, which catches its
\* exception and returns False
SendDemoEmailNow(email, categories) ==
    /\ ~demoCall.done
    /\ \E rows \in {GetRecentPredictions(predictions, LOOKBACK_HOURS, None,
                                         now)} :
       \E all \in {[i \in 1..Len(rows) |-> DemoPrediction(rows[i])]} :
       \E preds \in {IF categories # <<>>
                     THEN SelectSeq(all, LAMBDA p :
                              \E k \in 1..Len(categories) :
                                  categories[k] = p.category)
                     ELSE all} :
       \E call \in {[NoDemoCall EXCEPT !.email = email,
                                       !.categories = categories,
                                       !.at = now, !.ledgerBefore = alerts,
                                       !.ledgerAfter = alerts,
                                       !.preds = preds, !.done = TRUE]} :
         IF preds = <<>>
         THEN /\ demoCall' = call
              /\ UNCHANGED alerts
         ELSE \E best \in {BestPrediction(preds)}, sendOk \in BOOLEAN :
                IF sendOk
                THEN /\ alerts' = LogAlert(alerts, email, best, now)
                     /\ demoCall' = [call EXCEPT !.best = <<best>>,
                                                 !.sent = TRUE, !.ret = TRUE,
                                                 !.ledgerAfter = alerts']
                ELSE /\ demoCall' = [call EXCEPT !.best = <<best>>]
                     /\ UNCHANGED alerts
    /\ UNCHANGED <<now, sched, cyc, predictions, lastSave, lastCall, delivered,
                   topicCall, policyCall, data_points, run, featCall,
                   collectCall>>

\* time passes: just over the category cooldown
AdvanceDemo ==
    /\ now + ALERT_CATEGORY_COOLDOWN_HOURS * 60 + 1 <= MaxTimeDemo
    /\ now' = now + ALERT_CATEGORY_COOLDOWN_HOURS * 60 + 1
    /\ UNCHANGED <<sched, cyc, predictions, lastSave, alerts, lastCall,
                   delivered, mlvars>>

----------------------------------------------------------------------------
(* Specifications *)

Init ==
    /\ now = 0
    /\ sched = [state |-> "new", nextFire |-> 0]
    /\ cyc = [c \in Threads |-> IdleCycle]
    /\ predictions = <<>>
    /\ lastSave = [topic |-> None, category |-> None, at |-> 0, rows |-> 0,
                   ret |-> 0]
    /\ alerts = <<>>
    /\ lastCall = NoCall
    /\ delivered = <<>>
    /\ topicCall = NoTopicCall
    /\ policyCall = NoPolicyCall
    /\ data_points = <<>>
    /\ run = NoRun
    /\ featCall = NoFeatureCall
    /\ collectCall = NoCollectCall
    /\ demoCall = NoDemoCall

Next ==
    \/ StartScheduler
    \/ ImmediateRun
    \/ Tick
    \/ \E c \in Threads : Collect(c)
    \/ \E c \in Threads : PredictCategory(c)
    \/ \E c \in Threads : SaveSelect(c)
    \/ \E c \in Threads : SaveInsert(c)
    \/ \E c \in Threads : Alert(c)
    \/ AdvanceSched

Spec == Init /\ [][Next]_vars

NextStore ==
    \/ \E t \in Topics, c \in CategorySet : SavePrediction(t, c)
    \/ \E d \in StoreDeltas : AdvanceStore(d)

SpecStore == Init /\ [][NextStore]_vars

NextAlert ==
    \/ \E in \in SendInputs : SendAlertsToUser(in[1], in[2])
    \/ \E d \in AlertDeltas : AdvanceAlert(d)

SpecAlert == Init /\ [][NextAlert]_vars

\* the state outside the prediction pipeline: nothing scheduled, empty tables
QuietInit ==
    /\ now = 0
    /\ sched = [state |-> "new", nextFire |-> 0]
    /\ cyc = [c \in Threads |-> IdleCycle]
    /\ predictions = <<>>
    /\ lastSave = [topic |-> None, category |-> None, at |-> 0, rows |-> 0,
                   ret |-> 0]
    /\ alerts = <<>>
    /\ lastCall = NoCall
    /\ delivered = <<>>

\* normalize_topic as a function: one call on each input
InitTopic ==
    /\ QuietInit
    /\ topicCall \in {[NoTopicCall EXCEPT !.raw = r] : r \in RawInputs}
    /\ policyCall = NoPolicyCall
    /\ data_points = <<>>
    /\ run = NoRun
    /\ featCall = NoFeatureCall
    /\ collectCall = NoCollectCall
    /\ demoCall = NoDemoCall

NextTopic == NormalizeTopicCall

SpecTopic == InitTopic /\ [][NextTopic]_vars

\* passes_prediction_policy as a function: one call on each input
InitPolicy ==
    /\ QuietInit
    /\ topicCall = NoTopicCall
    /\ policyCall \in PolicyInputs
    /\ data_points = <<>>
    /\ run = NoRun
    /\ featCall = NoFeatureCall
    /\ collectCall = NoCollectCall
    /\ demoCall = NoDemoCall

NextPolicy == PassesPredictionPolicyCall

SpecPolicy == InitPolicy /\ [][NextPolicy]_vars

\* the prediction pipeline: one cycle of prediction and alerting on each
\* table of data points
InitPredict ==
    /\ now = 0
    /\ sched = [state |-> "new", nextFire |-> 0]
    /\ cyc = [c \in Threads |-> IdleCycle]
    /\ predictions = <<>>
    /\ lastSave = [topic |-> None, category |-> None, at |-> 0, rows |-> 0,
                   ret |-> 0]
    /\ data_points \in MentionTables
    /\ alerts \in (IF data_points = BulkTable THEN {<<>>, PriorAlerts}
                                              ELSE {<<>>})
    /\ lastCall = NoCall
    /\ delivered = <<>>
    /\ topicCall = NoTopicCall
    /\ policyCall = NoPolicyCall
    /\ run = NoRun
    /\ featCall = NoFeatureCall
    /\ collectCall = NoCollectCall
    /\ demoCall = NoDemoCall

NextPredict ==
    \/ RunPredictions
    \/ SendCycleAlerts
    \/ AdvancePredict

SpecPredict == InitPredict /\ [][NextPredict]_vars

\* extract_features as a function: one call on each input
InitFeatures ==
    /\ QuietInit
    /\ topicCall = NoTopicCall
    /\ policyCall = NoPolicyCall
    /\ data_points = <<>>
    /\ run = NoRun
    /\ featCall \in FeatureInputs
    /\ collectCall = NoCollectCall
    /\ demoCall = NoDemoCall

NextFeatures == ExtractFeaturesCall

SpecFeatures == InitFeatures /\ [][NextFeatures]_vars

\* one run of the collector on each list of candidates
InitCollect ==
    /\ QuietInit
    /\ topicCall = NoTopicCall
    /\ policyCall = NoPolicyCall
    /\ data_points = <<>>
    /\ run = NoRun
    /\ featCall = NoFeatureCall
    /\ collectCall \in CollectInputs
    /\ demoCall = NoDemoCall

NextCollect == CollectGlobalDiscoveryAndSave

SpecCollect == InitCollect /\ [][NextCollect]_vars

\* the demo email, requested once, and the calls of send_alerts_to_user for
\* its address that follow it; alerts sent before it are in the initial
\* ledger
InitDemo ==
    /\ now = 0
    /\ sched = [state |-> "new", nextFire |-> 0]
    /\ cyc = [c \in Threads |-> IdleCycle]
    /\ predictions \in DemoTables
    /\ lastSave = [topic |-> None, category |-> None, at |-> 0, rows |-> 0,
                   ret |-> 0]
    /\ alerts \in DemoLedgers
    /\ lastCall = NoCall
    /\ delivered = <<>>
    /\ topicCall = NoTopicCall
    /\ policyCall = NoPolicyCall
    /\ data_points = <<>>
    /\ run = NoRun
    /\ featCall = NoFeatureCall
    /\ collectCall = NoCollectCall
    /\ demoCall = NoDemoCall

NextDemo ==
    \/ \E e \in DemoEmails, cs \in DemoCategories : SendDemoEmailNow(e, cs)
    \/ /\ demoCall.done
       /\ Len(delivered) < MaxDemoFollowUps
       /\ \E in \in SendInputs :
             in[1] = demoCall.email /\ SendAlertsToUser(in[1], in[2])
    \/ AdvanceDemo

SpecDemo == InitDemo /\ [][NextDemo]_vars

----------------------------------------------------------------------------
(* Claims about the scheduler and the cycle, under Spec *)

\* C1: at most one execution of collect_and_predict is in flight at any
\* time: the immediate run of start_scheduler and a run started by an
\* interval tick never overlap.
AtMostOneCycleInFlight ==
    ~(cyc["main"].pc # "idle" /\ cyc["job"].pc # "idle")

\* C2: an execution of collect_and_predict never ends with an exception: it
\* reaches alerting only after predict_trends was invoked for every configured
\* category, and it returns normally after alerting was called, whatever
\* raised in collection, in a category's prediction or in alerting.
CycleAlwaysCompletes ==
    \A c \in Threads :
        /\ cyc[c].result # "raised"
        /\ cyc[c].pc = "alert" => cyc[c].invoked = CategorySet
        /\ cyc[c].result = "returned" =>
              /\ cyc[c].pc = "idle"
              /\ cyc[c].invoked = CategorySet
              /\ cyc[c].alertCalled

\* C2 witness: a finished execution in which collection raised, predict_trends
\* raised for the first category and alerting raised
CycleCompletedDespiteFailures ==
    \E c \in Threads :
        /\ cyc[c].result = "returned"
        /\ cyc[c].collectRaised
        /\ Categories[1] \in cyc[c].raisedCats
        /\ cyc[c].invoked = CategorySet
        /\ cyc[c].alertRaised

\* C4: also when save_prediction calls interleave, no two rows of the
\* predictions table with the same (topic, category) are less than 1 hour
\* apart: of two concurrent calls for one key at most one inserts.
ConcurrentSavesInsertOnce ==
    \A i, j \in 1..Len(predictions) :
        (/\ i < j
         /\ predictions[i].topic = predictions[j].topic
         /\ predictions[i].category = predictions[j].category)
        => predictions[j].predicted_at - predictions[i].predicted_at
              >= PredictionDedupMinutes

----------------------------------------------------------------------------
(* Claims about save_prediction called sequentially, under SpecStore *)

SameKey(row, topic, category) ==
    row.topic = topic /\ row.category = category

\* C3: a sequential save_prediction call inserts a row and returns its id
\* only if no row of the same (topic, category) has predicted_at within the
\* last hour, otherwise it inserts nothing and returns None; so rows of one
\* key are never less than 1 hour apart.
SavePredictionDedup ==
    /\ \A i, j \in 1..Len(predictions) :
          (i < j /\ SameKey(predictions[i], predictions[j].topic,
                            predictions[j].category))
          => predictions[j].predicted_at - predictions[i].predicted_at >= 60
    /\ lastSave.topic # None =>
          IF lastSave.ret = 0
          THEN /\ Len(predictions) = lastSave.rows
               /\ \E i \in 1..Len(predictions) :
                     /\ SameKey(predictions[i], lastSave.topic, lastSave.category)
                     /\ lastSave.at - predictions[i].predicted_at < 60
          ELSE /\ Len(predictions) = lastSave.rows + 1
               /\ lastSave.ret = Len(predictions)
               /\ predictions[lastSave.ret] =
                     [id |-> lastSave.ret, topic |-> lastSave.topic,
                      category |-> lastSave.category,
                      trend_score |-> StoreScore,
                      confidence |-> StoreConfidence,
                      predicted_at |-> lastSave.at, alerted |-> 0]
               /\ \A i \in 1..lastSave.rows :
                     SameKey(predictions[i], lastSave.topic, lastSave.category)
                     => lastSave.at - predictions[i].predicted_at >= 60

\* C3 witness: two rows of one key 61 minutes apart, and a call 30 minutes
\* after the later one that returned None
SaveAfter61MinutesAndAfter30 ==
    \E i, j \in 1..Len(predictions) :
        /\ SameKey(predictions[i], predictions[j].topic, predictions[j].category)
        /\ predictions[j].predicted_at - predictions[i].predicted_at = 61
        /\ SameKey(predictions[j], lastSave.topic, lastSave.category)
        /\ lastSave.ret = 0
        /\ lastSave.at - predictions[j].predicted_at = 30

----------------------------------------------------------------------------
(* Claims about alert selection and sending, under SpecAlert *)

InSeq(p, seq) == \E k \in 1..Len(seq) : seq[k] = p

\* the ledger as the last call of send_alerts_to_user found it holds a
\* record of the call's email for this category inside the category cooldown
CallCategoryCooling(category) ==
    \E i \in 1..Len(lastCall.ledger) :
        /\ lastCall.ledger[i].email = lastCall.email
        /\ lastCall.ledger[i].category = category
        /\ lastCall.ledger[i].alerted_at >= lastCall.at - 6 * 60

\* ... a record of the call's email for this topic inside the topic cooldown
CallTopicCooling(topic) ==
    \E i \in 1..Len(lastCall.ledger) :
        /\ lastCall.ledger[i].email = lastCall.email
        /\ lastCall.ledger[i].topic = topic
        /\ lastCall.ledger[i].alerted_at >= lastCall.at - 24 * 60

PassesThresholds(p) ==
    p.trend_score >= 65 * Milli /\ p.confidence >= 60 * Milli

\* a candidate of the last call that passes the thresholds and is in neither
\* cooldown
CallSurvivor(p) ==
    /\ InSeq(p, lastCall.preds)
    /\ PassesThresholds(p)
    /\ ~CallCategoryCooling(p.category)
    /\ ~CallTopicCooling(p.topic)

\* C5: a batch of send_alerts_to_user logs all or nothing: no AlertRecord
\* when delivery failed, exactly one per selected item when it succeeded.
BatchLoggingAllOrNothing ==
    lastCall.email # None =>
        Len(alerts) - Len(lastCall.ledger) =
            IF lastCall.sent THEN Len(lastCall.chosen) ELSE 0

\* C6: filter_predictions_for_user returns no prediction of a category for
\* which the ledger holds a record of that email with
\* alerted_at >= now - ALERT_CATEGORY_COOLDOWN_HOURS, the cutoff included.
CategoryCooldownInclusive ==
    \A k \in 1..Len(lastCall.chosen) :
        ~CallCategoryCooling(lastCall.chosen[k].category)

\* C6 witness: the only record of the email and category is exactly at the
\* cutoff, and a candidate of that category passes the thresholds and has no
\* record for its topic
CategoryRecordExactlyAtCutoff ==
    \E i \in 1..Len(lastCall.ledger), k \in 1..Len(lastCall.preds) :
        /\ lastCall.ledger[i].email = lastCall.email
        /\ lastCall.ledger[i].alerted_at = lastCall.at - 6 * 60
        /\ \A j \in 1..Len(lastCall.ledger) :
              (/\ lastCall.ledger[j].email = lastCall.email
               /\ lastCall.ledger[j].category = lastCall.ledger[i].category)
              => lastCall.ledger[j].alerted_at = lastCall.at - 6 * 60
        /\ lastCall.preds[k].category = lastCall.ledger[i].category
        /\ PassesThresholds(lastCall.preds[k])
        /\ ~CallTopicCooling(lastCall.preds[k].topic)
        /\ ~InSeq(lastCall.preds[k], lastCall.chosen)

\* C7: two delivered batches of send_alerts_to_user to one email that share a
\* category are more than ALERT_CATEGORY_COOLDOWN_HOURS apart, and two that
\* share a topic are more than ALERT_TOPIC_COOLDOWN_HOURS apart.
NoRepeatAlertWithinCooldown ==
    \A i, j \in 1..Len(delivered) :
        (i < j /\ delivered[i].email = delivered[j].email) =>
            /\ (\E x \in delivered[i].items, y \in delivered[j].items :
                   x[1] = y[1])
               => delivered[j].at - delivered[i].at > 6 * 60
            /\ (\E x \in delivered[i].items, y \in delivered[j].items :
                   x[2] = y[2])
               => delivered[j].at - delivered[i].at > 24 * 60

\* C8: in a category that is not in category cooldown, the per-category
\* step of filter_predictions_for_user drops exactly the candidates (that
\* passed the thresholds) whose topic has a record of that email inside the
\* topic cooldown, whatever the record's category, and keeps the others; a
\* dropped one is never returned, a kept one is returned unless the final
\* truncation to the ALERT_MAX_ITEMS_PER_EMAIL best leaves it out.
TopicCooldownDropsExactly ==
    \A k \in 1..Len(lastCall.preds) :
        LET p == lastCall.preds[k]
        IN  (PassesThresholds(p) /\ ~CallCategoryCooling(p.category)) =>
                /\ InSeq(p, lastCall.filtered) <=> ~CallTopicCooling(p.topic)
                /\ CallTopicCooling(p.topic) => ~InSeq(p, lastCall.chosen)
                /\ ~CallTopicCooling(p.topic) =>
                      \/ InSeq(p, lastCall.chosen)
                      \/ /\ Len(lastCall.chosen) = 5
                         /\ \A m \in 1..5 :
                               lastCall.chosen[m].trend_score >= p.trend_score

\* C8 witness: a category out of category cooldown with one candidate dropped
\* for a topic record that carries another category and one candidate kept
TopicDroppedByOtherCategoryRecord ==
    \E k, m \in 1..Len(lastCall.preds) :
        LET p == lastCall.preds[k]
            q == lastCall.preds[m]
        IN  /\ p.category = q.category
            /\ ~CallCategoryCooling(p.category)
            /\ PassesThresholds(p) /\ PassesThresholds(q)
            /\ CallTopicCooling(p.topic)
            /\ \A i \in 1..Len(lastCall.ledger) :
                  lastCall.ledger[i].topic = p.topic
                  => lastCall.ledger[i].category # p.category
            /\ ~InSeq(p, lastCall.filtered)
            /\ ~InSeq(p, lastCall.chosen)
            /\ InSeq(q, lastCall.filtered)
            /\ InSeq(q, lastCall.chosen)

\* C9: every prediction returned by filter_predictions_for_user has
\* trend_score >= ALERT_MIN_TREND_SCORE and confidence >= ALERT_MIN_CONFIDENCE.
SelectedMeetBothThresholds ==
    \A k \in 1..Len(lastCall.chosen) :
        /\ lastCall.chosen[k].trend_score >= 65 * Milli
        /\ lastCall.chosen[k].confidence >= 60 * Milli

\* C9 witness: a non-empty selection from candidates of which one meets only
\* the score threshold and one only the confidence threshold
SelectionWithHalfStrongCandidates ==
    /\ lastCall.chosen # <<>>
    /\ \E k \in 1..Len(lastCall.preds) :
          /\ lastCall.preds[k].trend_score >= 65 * Milli
          /\ lastCall.preds[k].confidence < 60 * Milli
    /\ \E k \in 1..Len(lastCall.preds) :
          /\ lastCall.preds[k].trend_score < 65 * Milli
          /\ lastCall.preds[k].confidence >= 60 * Milli

\* C10: the returned list has at most ALERT_MAX_ITEMS_PER_EMAIL items, is in
\* non-increasing order of trend_score across categories, and holds the
\* highest-scoring surviving candidates.
SelectionSortedAndBest ==
    /\ Len(lastCall.chosen) <= 5
    /\ \A k \in 1..(Len(lastCall.chosen) - 1) :
          lastCall.chosen[k].trend_score >= lastCall.chosen[k + 1].trend_score
    /\ \A k \in 1..Len(lastCall.chosen) : CallSurvivor(lastCall.chosen[k])
    /\ \A k \in 1..Len(lastCall.preds) :
          (CallSurvivor(lastCall.preds[k])
           /\ ~InSeq(lastCall.preds[k], lastCall.chosen))
          => /\ Len(lastCall.chosen) = 5
             /\ \A m \in 1..5 :
                   lastCall.chosen[m].trend_score >= lastCall.preds[k].trend_score

\* C10 witness: five items of two categories selected and a survivor left out
SelectionTruncatedAcrossCategories ==
    /\ Len(lastCall.chosen) = 5
    /\ \E k, m \in 1..5 :
          lastCall.chosen[k].category # lastCall.chosen[m].category
    /\ \E k \in 1..Len(lastCall.preds) :
          /\ CallSurvivor(lastCall.preds[k])
          /\ ~InSeq(lastCall.preds[k], lastCall.chosen)

----------------------------------------------------------------------------
(* Claims about passes_prediction_policy, under SpecPolicy *)

\* C11: passes_prediction_policy rejects when total_mentions is below
\* MIN_MENTIONS_FOR_TOPIC, whatever platform_count is; otherwise it accepts
\* when platform_count reaches MIN_PLATFORMS_FOR_PREDICTION; otherwise it
\* accepts exactly when platform_count is 1 and the score is at least
\* SINGLE_PLATFORM_MIN_SCORE.  2 mentions on 1 platform with score 75.0 are
\* admitted; 1 mention or a score just below 75.0 is rejected.
PolicyRulesInOrder ==
    LET m == policyCall.f.total_mentions
        k == policyCall.f.platform_count
        sc == policyCall.score
    IN  policyCall.done =>
          /\ m < 2 => ~policyCall.ret
          /\ (m >= 2 /\ k >= 2) => policyCall.ret
          /\ (m >= 2 /\ k < 2) => (policyCall.ret <=> (k = 1 /\ sc >= 75 * Milli))
          /\ (m = 2 /\ k = 1 /\ sc = 75 * Milli) => policyCall.ret
          /\ (m = 1 /\ k = 1 /\ sc = 75 * Milli) => ~policyCall.ret
          /\ (m = 2 /\ k = 1 /\ sc = 75 * Milli - 1) => ~policyCall.ret

\* C11 witness: the boundary call that admits, 2 mentions on 1 platform with
\* score 75.0
PolicyBoundaryAdmitted ==
    /\ policyCall.done
    /\ policyCall.f = [total_mentions |-> 2, platform_count |-> 1]
    /\ policyCall.score = 75 * Milli
    /\ policyCall.ret

----------------------------------------------------------------------------
(* Claims about normalize_topic, under SpecTopic *)

\* C14: normalize_topic is idempotent and total: for every input string and
\* for None the call returns a string, normalizing that string again returns
\* the same string, and the empty string and None yield the empty string.
NormalizeTopicIdempotent ==
    topicCall.done =>
        /\ topicCall.once \in STRING
        /\ topicCall.twice = topicCall.once
        /\ topicCall.raw \in {None, ""} => topicCall.once = ""

\* C14 witness: a topic that loses a stop word between two other words, and
\* a topic made of a stop word and punctuation that becomes empty
NormalizedStopWordTopics ==
    /\ topicCall.done
    /\ \/ topicCall.raw = "tesla stock crash" /\ topicCall.once = "tesla crash"
       \/ topicCall.raw = "Live" /\ topicCall.once = ""

----------------------------------------------------------------------------
(* Claims about the prediction pipeline, under SpecPredict *)

\* the predict_trends runs of the cycle, one per category
CycleResults ==
    IF run.done THEN {run.byCat[k] : k \in 1..Len(run.byCat)} ELSE {}

Elements(q) == {q[i] : i \in 1..Len(q)}

\* C12: a topic becomes a prediction only if it passes the admission policy
\* and its trend_score is at least TREND_SCORE_THRESHOLD: every prediction
\* returned, every prediction handed to save_prediction and every row of
\* the predictions table written by the cycle has trend_score >= 45, at
\* least 2 mentions and either 2 platforms or 1 platform with score >= 75;
\* a topic with a single mention is never predicted, whatever its score.
PredictionsPassPolicyAndThreshold ==
    /\ \A r \in CycleResults :
          /\ \A p \in Elements(r.preds) :
                /\ p.trend_score >= 45 * Milli
                /\ p.features.total_mentions >= 2
                /\ \/ p.features.platform_count >= 2
                   \/ /\ p.features.platform_count = 1
                      /\ p.trend_score >= 75 * Milli
          /\ \A e \in Elements(r.evals) :
                e.f.total_mentions < 2 =>
                   \A p \in Elements(r.preds) : p.topic # e.topic
          /\ Elements(r.submitted) \subseteq Elements(r.preds)
    /\ run.done =>
          \A i \in 1..Len(predictions) :
              \E r \in CycleResults : \E p \in Elements(r.submitted) :
                  /\ predictions[i].topic = p.topic
                  /\ predictions[i].category = p.category

\* C12 witness: a cycle that wrote a row and left out a topic with a single
\* mention on a single platform whose trend_score is above the threshold
SingleMentionAboveThresholdRejected ==
    /\ run.done
    /\ Len(predictions) > 0
    /\ \E r \in CycleResults : \E e \in Elements(r.evals) :
          /\ e.f.total_mentions = 1
          /\ e.f.platform_count = 1
          /\ e.score >= 45 * Milli
          /\ ~e.predicted

\* C13: for every signal vector that is not absent, also one built from a
\* negative engagement, calculate_trend_score and calculate_confidence
\* return a value in [0, 100].
ScoresWithinRange ==
    \A r \in CycleResults :
        /\ \A e \in Elements(r.evals) :
              ~e.f.absent => (e.score >= 0 /\ e.score <= 100 * Milli)
        /\ \A p \in Elements(r.preds) :
              p.confidence >= 0 /\ p.confidence <= 100 * Milli

\* the canonical form of every topic of the data points of a run
CanonicalForms(r) ==
    {<<t, NormalizeTopic(t)>> : t \in {dp.topic : dp \in Elements(r.data)}}

\* the canonical form of topic t according to the pairs `forms`
FormOf(forms, t) == (CHOOSE pr \in forms : pr[1] = t)[2]

\* C15: feature extraction groups by canonical form: two raw topics of a
\* run with the same canonical form get the same signal vector, and the
\* vector of a topic counts every data point whose topic has its canonical
\* form, whatever the raw string: total_mentions is their number and
\* platform_count the number of their platforms.
FeaturesGroupedByCanonicalForm ==
    \A r \in CycleResults : \A forms \in {CanonicalForms(r)} :
        \A e1 \in Elements(r.evals) :
            \A rows \in {SelectSeq(r.data, LAMBDA dp :
                            FormOf(forms, dp.topic) = FormOf(forms, e1.topic))} :
                /\ ~e1.f.absent
                /\ e1.f.total_mentions = Len(rows)
                /\ e1.f.platform_count =
                      Cardinality({dp.platform : dp \in Elements(rows)})
                /\ \A e2 \in Elements(r.evals) :
                      FormOf(forms, e1.topic) = FormOf(forms, e2.topic)
                      => e1.f = e2.f

\* C15 witness: two topics of one run that differ as raw strings, have one
\* canonical form and one vector that counts the mentions of both
TwoSpellingsOneVector ==
    \E r \in CycleResults : \E e1, e2 \in Elements(r.evals) :
        /\ e1.topic # e2.topic
        /\ NormalizeTopic(e1.topic) = NormalizeTopic(e2.topic)
        /\ e1.f = e2.f
        /\ e1.f.total_mentions = 2
        /\ e1.f.platform_count = 2

\* C16: raw topics with the same non-empty canonical form are one topic
\* downstream: a predict_trends run returns at most one prediction, and the
\* cycle writes at most one row, per canonical topic and category.
OnePredictionPerCanonicalTopic ==
    /\ \A r \in CycleResults :
          \A i, j \in 1..Len(r.preds) :
              (/\ i # j
               /\ NormalizeTopic(r.preds[i].topic) # "")
              => NormalizeTopic(r.preds[i].topic)
                    # NormalizeTopic(r.preds[j].topic)
    /\ run.done =>
          \A i, j \in 1..Len(predictions) :
              (/\ i # j
               /\ predictions[i].category = predictions[j].category
               /\ NormalizeTopic(predictions[i].topic) # "")
              => NormalizeTopic(predictions[i].topic)
                    # NormalizeTopic(predictions[j].topic)

\* C17: a data point whose topic has the empty canonical form is left out of
\* the analysis: it is counted in no signal vector of the run and no
\* prediction is returned for such a topic.
EmptyCanonicalTopicsExcluded ==
    \A r \in CycleResults :
        /\ \A p \in Elements(r.preds) : NormalizeTopic(p.topic) # ""
        /\ \A e \in Elements(r.evals) :
              (NormalizeTopic(e.topic) = "") => e.f.absent

\* the predictions table as the k-th predict_trends run of the cycle found it
RowsBeforeRun(k) == IF k = 1 THEN run.rowsBefore ELSE run.byCat[k - 1].rows

\* C18: a predict_trends run hands at most TOP_N_PREDICTIONS_TO_SAVE
\* predictions to save_prediction; they are taken after every topic of the
\* category was scored and are the ones of highest trend_score among all
\* the predictions of the run; the others are returned but not saved, and
\* the run does not raise because of them.
TopNSavedAfterScoring ==
    \A k \in 1..Len(run.byCat) : \A r \in {run.byCat[k]} :
        /\ Len(r.submitted) = Min(Len(r.preds), 10)
        /\ Elements(r.submitted) \subseteq Elements(r.preds)
        /\ \A e \in Elements(r.evals) :
              e.predicted => \E p \in Elements(r.preds) : p.topic = e.topic
        /\ \A q \in Elements(r.submitted) :
              \A p \in Elements(r.preds) \ Elements(r.submitted) :
                  q.trend_score >= p.trend_score
        /\ Len(r.rows) - Len(RowsBeforeRun(k)) <= Len(r.submitted)
        /\ Len(r.preds) > 0 => ~r.raised

\* C18 witness: a run with one prediction more than it saves: 11 returned,
\* 10 handed to save_prediction, the one of lowest score left out
LowestOfElevenNotSaved ==
    \E r \in CycleResults :
        /\ Len(r.preds) = 11
        /\ Len(r.submitted) = 10
        /\ Len(predictions) >= 9
        /\ \E p \in Elements(r.preds) \ Elements(r.submitted) :
              \A q \in Elements(r.submitted) : q.trend_score > p.trend_score

\* the table of the end-to-end scenario: "Tesla Stock" on google_trends with
\* engagement 300 and, an hour later, "tesla stock crash" on news with
\* engagement 90, in stocks_finance (baseline 250.0)
TeslaScenario == PoolRows({1, 2})

\* the same two mentions, both with the topic "Tesla Stock"
TeslaSameTopic == PoolRows({1, 10})

\* the predict_trends run of the cycle for stocks_finance went through on a
\* host whose clock is UTC (both mentions are recent), no save raised
StocksRunWentThrough ==
    /\ run.done
    /\ run.localNow = run.at
    /\ ~run.byCat[1].raised
    /\ run.byCat[1].failing = {}

\* C19 as stated: in the end-to-end scenario the two mentions are merged
\* into one topic with platform_count 2 that passes the policy with
\* trend_score >= 45, and the cycle persists exactly one prediction.
TeslaScenarioPersistsOnePrediction ==
    (data_points = TeslaScenario /\ StocksRunWentThrough) =>
        /\ \E e \in Elements(run.byCat[1].evals) :
              /\ e.f.platform_count = 2
              /\ e.f.total_mentions = 2
              /\ e.passes
              /\ e.score >= 45 * Milli
        /\ Len(predictions) = 1

\* C19 amended: in the end-to-end scenario the two topics have different
\* canonical forms and are not merged: each has 1 mention on 1 platform, is
\* rejected by the policy, and the cycle persists no prediction.  When both
\* mentions carry the topic "Tesla Stock" they are one topic with
\* platform_count 2 and 2 mentions that passes the policy, and the cycle
\* persists at most one prediction, for "Tesla Stock".
TeslaScenarioNotMerged ==
    /\ (data_points = TeslaScenario /\ run.done) =>
          /\ \A e \in Elements(run.byCat[1].evals) :
                /\ e.f.platform_count = 1
                /\ e.f.total_mentions = 1
                /\ ~e.passes
                /\ ~e.predicted
          /\ ~run.byCat[1].raised => Len(run.byCat[1].evals) = 2
          /\ run.byCat[1].preds = <<>>
          /\ predictions = <<>>
    /\ (data_points = TeslaSameTopic /\ run.done) =>
          /\ ~run.byCat[1].raised => Len(run.byCat[1].evals) = 1
          /\ \A e \in Elements(run.byCat[1].evals) :
                /\ e.f.platform_count = 2
                /\ e.f.total_mentions = 2
                /\ e.passes
          /\ Len(predictions) <= 1
          /\ \A i \in 1..Len(predictions) :
                predictions[i].topic = "Tesla Stock"
          /\ StocksRunWentThrough => Len(predictions) = 1

\* C19 witness: the cycle ran on the scenario's table and scored both topics
TeslaScenarioScored ==
    /\ data_points = TeslaScenario
    /\ StocksRunWentThrough
    /\ Len(run.byCat[1].evals) = 2

\* C20 as stated: in the end-to-end scenario (as given, or with both
\* mentions under one topic so that platform_count is 2) every subscriber of
\* the category, none of them alerted before, receives exactly one alert in
\* the cycle, and it contains the scenario's topic.
TeslaScenarioAlertsSubscriber ==
    (/\ data_points \in {TeslaScenario, TeslaSameTopic}
     /\ StocksRunWentThrough
     /\ run.alertCalled
     /\ ~run.alertRaised) =>
        \A email \in Elements(GetSubscribersByCategory("stocks_finance")) :
            /\ Cardinality({i \in 1..Len(run.batches) :
                              run.batches[i].email = email}) = 1
            /\ \E i \in 1..Len(run.batches) :
                  /\ run.batches[i].email = email
                  /\ \E p \in Elements(run.batches[i].items) :
                        p.topic \in {"Tesla Stock", "tesla stock crash"}

\* C20 amended: in the end-to-end scenario no subscriber receives an alert
\* in the cycle: the scenario yields no prediction.  When both mentions
\* carry the topic "Tesla Stock", a prediction has a trend_score below
\* ALERT_MIN_TREND_SCORE (53.2 when both mentions count as recent, with
\* confidence 72); filter_predictions_for_user does not select it and no
\* alert is sent either.
TeslaScenarioNoAlert ==
    /\ (data_points = TeslaScenario /\ run.done /\ run.alertCalled) =>
          /\ run.batches = <<>>
          /\ alerts = <<>>
    /\ (data_points = TeslaSameTopic /\ run.done) =>
          /\ \A p \in Elements(run.byCat[1].preds) :
                /\ p.trend_score < 65 * Milli
                /\ run.localNow = run.at =>
                      /\ p.trend_score >= 53 * Milli
                      /\ p.trend_score < 54 * Milli
                      /\ p.confidence = 72 * Milli
          /\ run.alertCalled => (run.batches = <<>> /\ alerts = <<>>)

\* C20 witness: alerting ran without an exception after the cycle predicted
\* "Tesla Stock" from the two mentions with that topic
TeslaPredictionNotAlerted ==
    /\ data_points = TeslaSameTopic
    /\ StocksRunWentThrough
    /\ Len(run.byCat[1].preds) = 1
    /\ run.alertCalled
    /\ ~run.alertRaised

----------------------------------------------------------------------------
(* Claims about the start-up of the scheduler, under Spec *)

\* C22: on start_scheduler one full execution of collect_and_predict runs to
\* completion first and only then is the interval timer armed: the timer is
\* not armed, and no execution started by an interval tick exists, before
\* the immediate start-up execution has returned.
TimerArmedAfterStartupCycle ==
    /\ sched.state # "new" => cyc["main"].result = "returned"
    /\ (cyc["job"].pc # "idle" \/ cyc["job"].result # "none") =>
          cyc["main"].result = "returned"

----------------------------------------------------------------------------
(* Claims about the alerting of a cycle, under SpecPredict *)

\* C25: alerts go only to subscribers of the category: in every batch that
\* send_alerts_for_predictions delivers to an email, the email has an active
\* row in the subscribers table and each item's category is one of the
\* categories of that row, also when both categories have predictions in
\* the cycle.
AlertsOnlyToSubscribers ==
    \A b \in Elements(run.batches) :
        /\ \E row \in Elements(SubscribersTable) :
              /\ row.email = b.email
              /\ row.active = 1
        /\ \A p \in Elements(b.items) :
              \E row \in Elements(SubscribersTable) :
                  /\ row.email = b.email
                  /\ p.category \in row.categories

\* C25 witness: both categories have a prediction in the cycle; the
\* subscriber of both receives both in one batch, the subscriber of
\* stocks_finance alone receives the stocks_finance prediction only
BothCategoriesAlertedSeparately ==
    /\ data_points = TwoCategoryTable
    /\ run.alertCalled
    /\ \E a, b \in Elements(run.batches) :
          /\ a.email = "ana@example.com"
          /\ {p.category : p \in Elements(a.items)} = CategorySet
          /\ b.email = "bo@example.com"
          /\ {p.category : p \in Elements(b.items)} = {"stocks_finance"}

\* C26: within one call of send_alerts_for_predictions each subscriber gets
\* at most one call of send_alerts_to_user, hence at most one batched email,
\* however many of their categories have predictions, and the candidate list
\* of a call holds no two entries with the same (category, topic).
OneAttemptPerSubscriber ==
    /\ \A i, j \in 1..Len(run.calls) :
          i # j => run.calls[i].email # run.calls[j].email
    /\ \A i, j \in 1..Len(run.batches) :
          i # j => run.batches[i].email # run.batches[j].email
    /\ \A c \in Elements(run.calls) :
          \A i, j \in 1..Len(c.candidates) :
              i # j => <<c.candidates[i].category, c.candidates[i].topic>>
                       # <<c.candidates[j].category, c.candidates[j].topic>>

\* C26 witness: the subscriber of both categories had candidates of both and
\* was sent one email
BothCategoriesInOneAttempt ==
    /\ run.alertCalled
    /\ \E c \in Elements(run.calls) :
          /\ c.email = "ana@example.com"
          /\ {p.category : p \in Elements(c.candidates)} = CategorySet
          /\ c.outcome = "sent"

\* C27: a failure while one subscriber is processed in
\* send_alerts_for_predictions (a storage error in the cooldown queries or in
\* get_subscribers_by_category, a delivery error, a log_alert error) is
\* confined to that subscriber: every subscriber with candidates is still
\* processed, that is, send_alerts_to_user is called for them in the cycle.
FailureConfinedToSubscriber ==
    run.alertCalled =>
        \A users \in {CandidateUsers([k \in 1..Len(Categories) |->
                                         run.byCat[k].preds],
                                     Len(Categories))} :
            \A e \in Elements(users) :
                \E c \in Elements(run.calls) : c.email = e

\* C28: every prediction that a cycle includes in a delivered alert batch
\* was submitted to save_prediction in that cycle (it is among the top
\* TOP_N_PREDICTIONS_TO_SAVE of its category), and its (topic, category) has
\* a row in the predictions table.
AlertedPredictionsWereSaved ==
    \A b \in Elements(run.batches) :
        \A p \in Elements(b.items) :
            /\ \E r \in Elements(run.byCat) :
                  /\ r.category = p.category
                  /\ p \in Elements(r.submitted)
            /\ \E row \in Elements(predictions) :
                  /\ row.topic = p.topic
                  /\ row.category = p.category

\* C29: after a cycle delivered an alert batch containing a prediction, the
\* rows of the predictions table for its (topic, category) have alerted = 1;
\* apart from this flip the cycle modifies and deletes no row that existed
\* before it.
AlertedRowsFlagged ==
    /\ \A b \in Elements(run.batches) :
          \A p \in Elements(b.items) :
              \A row \in Elements(predictions) :
                  (row.topic = p.topic /\ row.category = p.category)
                  => row.alerted = 1
    /\ run.done =>
          /\ Len(predictions) >= Len(run.rowsBefore)
          /\ \A i \in 1..Len(run.rowsBefore) :
                [predictions[i] EXCEPT !.alerted = 0]
                = [run.rowsBefore[i] EXCEPT !.alerted = 0]

----------------------------------------------------------------------------
(* Claims about extract_features and the scorer, under SpecFeatures *)

\* the data points of a call that match its topic
MatchingRows ==
    SelectSeq(featCall.rows,
              LAMBDA dp : NormalizeTopic(dp.topic)
                          = NormalizeTopic(featCall.topic))

\* C23: velocity is the number of matching mentions observed within the 6
\* hours before now, both read on the same clock (UTC), divided by
\* max(total_mentions, 1), so it lies between 0 and 1; a mention with a
\* malformed timestamp is counted in total_mentions and not in the
\* numerator, and extract_features returns the vector all the same.
VelocityOnOneClock ==
    featCall.done =>
        \A m \in {MatchingRows} :
            /\ featCall.eval.f.absent <=> m = <<>>
            /\ m # <<>> =>
                  /\ featCall.eval.f.total_mentions = Len(m)
                  /\ featCall.eval.f.velocity =
                        (Len(SelectSeq(m, LAMBDA dp :
                                 /\ dp.iso
                                 /\ dp.timestamp > now - 6 * 60)) * Milli)
                        \div Len(m)
                  /\ featCall.eval.f.velocity >= 0
                  /\ featCall.eval.f.velocity <= Milli

\* C24: the single-platform branch of the policy is unreachable with the
\* shipped constants: a vector with platform_count 1 scores at most
\* 8 + 25 + 20 + 10 + 6 = 69, below SINGLE_PLATFORM_MIN_SCORE, and
\* passes_prediction_policy rejects it.
SinglePlatformNeverAdmitted ==
    (/\ featCall.done
     /\ ~featCall.eval.f.absent
     /\ featCall.eval.f.platform_count = 1) =>
        /\ featCall.eval.score <= 69 * Milli
        /\ featCall.eval.score < SINGLE_PLATFORM_MIN_SCORE * Milli
        /\ ~featCall.eval.passes
        /\ ~featCall.eval.predicted

\* C24 witness: twelve recent news mentions with a very high engagement
\* reach the largest single-platform score, 69, and are rejected
SinglePlatformAtItsMaximum ==
    /\ featCall.done
    /\ ~featCall.eval.f.absent
    /\ featCall.eval.f.platform_count = 1
    /\ featCall.eval.f.total_mentions >= MIN_MENTIONS_FOR_TOPIC
    /\ featCall.eval.score = 69 * Milli
    /\ ~featCall.eval.passes

----------------------------------------------------------------------------
(* Claims about the collector, under SpecCollect *)

\* the positions of the classified candidates that were not "unknown"
KnownPositions ==
    SelectSeq([i \in 1..Len(collectCall.classified) |-> i],
              LAMBDA i : collectCall.classified[i] # "unknown")

\* C21: a candidate classified "unknown" is never stored:
\* classify_topic_to_category only returns a configured category key or
\* "unknown", collect_global_discovery_and_save calls save_data_point only
\* for the candidates whose category is a key of config.CATEGORIES, and no
\* row of data_points carries the category "unknown".
UnknownNeverStored ==
    /\ \A row \in Elements(data_points) : row.category \in CategorySet
    /\ collectCall.done =>
          /\ \A c \in Elements(collectCall.classified) :
                c \in CategorySet \cup {"unknown"}
          /\ \A pr \in collectCall.cache : pr[2] \in CategorySet \cup {"unknown"}
          /\ \A known \in {KnownPositions} :
                /\ Len(data_points) <= Len(known)
                /\ ~collectCall.raised => Len(data_points) = Len(known)
                /\ \A j \in 1..Len(data_points) :
                      /\ data_points[j].category
                         = collectCall.classified[known[j]]
                      /\ data_points[j].topic
                         = collectCall.candidates[known[j]].topic

\* C21 witness: a run with Claude in which the first candidate, whose
\* keywords point to stocks_finance, was classified "unknown" and skipped,
\* and the second one was stored under tech_ai
UnknownSkippedOtherStored ==
    /\ collectCall.done
    /\ collectCall.hasClaude
    /\ ~collectCall.raised
    /\ collectCall.classified = <<"unknown", "tech_ai">>
    /\ collectCall.candidates[1].topic = "Bitcoin ETF"
    /\ Len(data_points) = 1
    /\ data_points[1].topic = "OpenAI GPT-5"

----------------------------------------------------------------------------
(* Claims about the demo email, under SpecDemo *)

\* the rows of the predictions table that were recent at the demo call and
\* match the requested categories
DemoMatching ==
    {r \in Elements(predictions) :
        /\ r.predicted_at > demoCall.at - LOOKBACK_HOURS * 60
        /\ \/ demoCall.categories = <<>>
           \/ r.category \in Elements(demoCall.categories)}

\* a call of send_alerts_to_user for the demo's address made after the demo
\* was sent and logged
CallAfterDemo ==
    /\ demoCall.ret
    /\ lastCall.email = demoCall.email
    /\ Len(lastCall.ledger) >= Len(demoCall.ledgerAfter)
    /\ SubSeq(lastCall.ledger, 1, Len(demoCall.ledgerAfter))
       = demoCall.ledgerAfter

====
